---------------------------- MODULE Spec2Model ----------------------------
(***************************************************************************)
(* Model of the check/fix orchestration of devutils (logenium):            *)
(* the lint and license-header cache managers, the per-file workers, the   *)
(* parallel passes, the statistics and the exit codes.                     *)
(*                                                                         *)
(* Python values are modelled as follows.                                  *)
(*   - None is the string "None"; a str is a TLA+ string.                  *)
(*   - A call that returns or raises is a record [kind |-> ...]:           *)
(*       kind = "none"    the call returned None                           *)
(*       kind = "result"  the call returned a FileResult                   *)
(*       kind = "raise"   the call raised the exception named by .exc      *)
(*   - A modification time (a float of seconds) is a natural number.       *)
(***************************************************************************)
EXTENDS Integers, Sequences, FiniteSets, TLC

(***************************************************************************)
(* Bounds of the model.                                                    *)
(***************************************************************************)
MaxMtime == 3

(***************************************************************************)
(* utils/file_checking/file_status.py: the members of the enum FileStatus. *)
(***************************************************************************)
FileStatus == {"OK", "ISSUE", "ERROR", "UNKNOWN"}

\* Evaluation of the expression FileStatus.<name>: Enum raises AttributeError
\* for a name that is not a member.
HasMember(name) == name \in FileStatus

None == "None"

\* What a call gives back: it returned None, it returned a result, or it raised.
\* For the license-header manager a result is a HeaderCheckResult (FileResult,
\* issue_type, year); for lint it is a FileResult (issue_type None, year 0).
NoneResult ==
    [kind |-> "none", status |-> None, error |-> None, exc |-> None,
     issue_type |-> None, year |-> 0]
Raise(e) ==
    [kind |-> "raise", status |-> None, error |-> None, exc |-> e,
     issue_type |-> None, year |-> 0]
FileResult(status, error) ==
    [kind |-> "result", status |-> status, error |-> error, exc |-> None,
     issue_type |-> None, year |-> 0]
HeaderCheckResult(status, error, issue_type, year) ==
    [kind |-> "result", status |-> status, error |-> error, exc |-> None,
     issue_type |-> issue_type, year |-> year]

\* Python truthiness of an `str | None` value (`if result.error:`).
Truthy(s) == s # None /\ s # ""

(***************************************************************************)
(* The cache map.  A key that is not in the dict maps to NoEntry; a stat   *)
(* of a file is [exists, mtime] (exists = FALSE: stat raises OSError).     *)
(***************************************************************************)
\* An entry written by update_cache has shape "mapping"; the cache file of an
\* earlier run may also hold, under a key, a mapping without "mtime" (shape
\* "nomtime") or a non-empty value that is no mapping (shape "scalar").
NoEntry ==
    [present |-> FALSE, mtime |-> 0, status |-> None, error |-> None, year |-> 0,
     shape |-> "mapping"]
CacheEntry(mtime, status, error, year) ==
    [present |-> TRUE, mtime |-> mtime, status |-> status, error |-> error,
     year |-> year, shape |-> "mapping"]

\* The FileStatus members that the dict literals `status_map` of
\* LintCacheManager name: building the dict evaluates every one of them.
StatusMapMembers == {"OK", "WARNING", "ISSUE", "ERROR"}

\* status_map.get(entry["status"], FileStatus.ERROR) of get_cached_result
lint_status_of(s) ==
    CASE s = "ok" -> "OK"
      [] s = "warning" -> "WARNING"
      [] s = "issue" -> "ISSUE"
      [] s = "error" -> "ERROR"
      [] OTHER -> "ERROR"

\* status_map[result.status] of update_cache
lint_status_string(st) ==
    CASE st = "OK" -> "ok"
      [] st = "WARNING" -> "warning"
      [] st = "ISSUE" -> "issue"
      [] st = "ERROR" -> "error"
      [] OTHER -> "KeyError"

\* LintCacheManager.get_cached_result, given the entry found under the key
\* and the stat of the file.
lint_get_cached_result(enabled, entry, stat) ==
    IF ~enabled THEN NoneResult
    ELSE IF ~entry.present THEN NoneResult
    ELSE IF ~stat.exists THEN NoneResult
    ELSE IF entry.shape = "scalar" THEN Raise("TypeError")
    ELSE IF entry.shape = "nomtime" THEN Raise("KeyError")
    ELSE IF entry.mtime # stat.mtime THEN NoneResult
    ELSE IF \E m \in StatusMapMembers : ~HasMember(m) THEN Raise("AttributeError")
    ELSE FileResult(lint_status_of(entry.status), entry.error)

\* A variant whose status_map names only members of FileStatus.
lint_update_cache_of_members(enabled, stat, result) ==
    IF ~enabled \/ ~stat.exists THEN [op |-> "noop", entry |-> NoEntry, exc |-> None]
    ELSE [op |-> "store",
          entry |-> CacheEntry(stat.mtime, lint_status_string(result.status),
                               result.error, 0),
          exc |-> None]

\* LintCacheManager.update_cache: what it does to the entry under the key.
\*   op = "noop"   the entry is left alone       op = "raise"  it raised
\*   op = "store"  the entry becomes .entry
lint_update_cache(enabled, stat, result) ==
    IF ~enabled THEN [op |-> "noop", entry |-> NoEntry, exc |-> None]
    ELSE IF ~stat.exists THEN [op |-> "noop", entry |-> NoEntry, exc |-> None]
    ELSE IF \E m \in StatusMapMembers : ~HasMember(m)
         THEN [op |-> "raise", entry |-> NoEntry, exc |-> "AttributeError"]
    ELSE IF lint_status_string(result.status) = "KeyError"
         THEN [op |-> "raise", entry |-> NoEntry, exc |-> "KeyError"]
    ELSE [op |-> "store",
          entry |-> CacheEntry(stat.mtime, lint_status_string(result.status),
                               result.error, 0),
          exc |-> None]

\* LicenseHeaderCacheManager.get_cached_result
license_get_cached_result(enabled, entry, stat) ==
    IF ~enabled THEN NoneResult
    ELSE IF ~entry.present THEN NoneResult
    ELSE IF ~stat.exists THEN NoneResult
    ELSE IF entry.shape = "scalar" THEN Raise("TypeError")
    ELSE IF entry.shape = "nomtime" THEN Raise("KeyError")
    ELSE IF entry.mtime # stat.mtime THEN NoneResult
    ELSE CASE entry.status = "ok" ->
                HeaderCheckResult("OK", None, None, entry.year)
           [] entry.status = "missing" ->
                HeaderCheckResult("ISSUE", None, "MISSING", entry.year)
           [] entry.status = "incorrect" ->
                HeaderCheckResult("ISSUE", None, "INCORRECT", entry.year)
           [] entry.status = "error" ->
                HeaderCheckResult("ERROR", entry.error, None, entry.year)
           [] OTHER -> NoneResult

\* LicenseHeaderCacheManager.update_cache
license_update_cache(enabled, stat, result) ==
    IF ~enabled THEN [op |-> "noop", entry |-> NoEntry, exc |-> None]
    ELSE IF ~stat.exists THEN [op |-> "noop", entry |-> NoEntry, exc |-> None]
    ELSE LET status == IF result.status = "OK" THEN "ok"
                       ELSE IF result.issue_type = "MISSING" THEN "missing"
                       ELSE IF result.issue_type = "INCORRECT" THEN "incorrect"
                       ELSE "error"
         IN [op |-> "store",
             entry |-> CacheEntry(stat.mtime, status, result.error, result.year),
             exc |-> None]

(***************************************************************************)
(* State.                                                                  *)
(*   lk   a cache manager driven directly: one file, its stat, the cache   *)
(*        map of the manager and the last operation with what it gave      *)
(*   fl   a cache manager's save_cache, step by step, and the directory    *)
(*        that holds the cache file and its temporary sibling              *)
(*   pk   one run of a package-level lint step over a file set             *)
(*   rn   a command run after run over the files of a configuration        *)
(***************************************************************************)
VARIABLES lk, fl, pk, rn

vars == <<lk, fl, pk, rn>>

\* The variables a specification does not use keep this value.
Idle == [kind |-> "idle"]

(***************************************************************************)
(* A cache manager on one file (specification SpecLookup).                 *)
(***************************************************************************)

\* The keys of the one file: one per lint step (get_cache_key of
\* LintCacheManager: language, tool name, path), one for the license manager
\* (get_cache_key of LicenseHeaderCacheManager: language, path).
LkKeys(kind) == IF kind = "lint" THEN {"clang-tidy", "clang-check"} ELSE {"license"}

\* Status strings an entry read from the cache file may carry (load_cache adopts
\* the mapping of the file): those that update_cache writes.
LoadedStatuses(kind) ==
    IF kind = "lint" THEN {"ok", "warning", "issue", "error"}
    ELSE {"ok", "missing", "incorrect", "error"}

ThisYear == 2025

NoUpdate == [op |-> "noop", entry |-> NoEntry, exc |-> None]

get_cached_result(kind, enabled, entry, stat) ==
    IF kind = "lint" THEN lint_get_cached_result(enabled, entry, stat)
    ELSE license_get_cached_result(enabled, entry, stat)

update_cache(kind, enabled, stat, result) ==
    IF kind = "lint" THEN lint_update_cache(enabled, stat, result)
    ELSE license_update_cache(enabled, stat, result)

\* The cache file a manager finds at cache_path when it is constructed.
\*   how      "missing", "unreadable" (open raises OSError), "undecodable"
\*            (bytes that are not text in the locale's encoding),
\*            "unparseable" (not YAML), or what the document parses to:
\*            "null" (an empty file), "list", "mapping"
\*   version  of a mapping: "absent", "1.0", "2.0" or "float" (an unquoted
\*            1.0, which YAML reads as a number)
\*   cache    of a mapping: "absent", "list" or "mapping" (then with .entries)
CacheFiles(kind) ==
    LET none == [k \in LkKeys(kind) |-> NoEntry]
        LoadedEntries ==
            {NoEntry} \cup
            {CacheEntry(1, s, IF s = "error" THEN "msg" ELSE None,
                        IF kind = "lint" THEN 0 ELSE ThisYear) :
                s \in LoadedStatuses(kind)}
    IN [how : {"missing", "unreadable", "undecodable", "unparseable", "null", "list"},
        version : {"absent"}, cache : {"absent"}, entries : {none}]
       \cup [how : {"mapping"}, version : {"absent", "1.0", "2.0", "float"},
             cache : {"absent", "list"}, entries : {none}]
       \cup [how : {"mapping"}, version : {"absent", "1.0", "2.0", "float"},
             cache : {"mapping"}, entries : [LkKeys(kind) -> LoadedEntries]]

\* Cache files that are a well-formed envelope around malformed entries: an
\* entry without mtime, an entry that is a string, an entry whose status is
\* none of those update_cache writes.
CorruptFiles(kind) ==
    LET year == IF kind = "lint" THEN 0 ELSE ThisYear
        corrupt == {[CacheEntry(0, "ok", None, year) EXCEPT !.shape = "nomtime"],
                    [CacheEntry(0, None, None, 0) EXCEPT !.shape = "scalar"],
                    CacheEntry(1, "bogus", None, year)}
    IN [how : {"mapping"}, version : {"1.0"}, cache : {"mapping"},
        entries : [LkKeys(kind) -> {NoEntry} \cup corrupt]]

\* load_cache on that file: whether it raised, whether it adopted the file's
\* mapping, and the entries of self.cache_data["cache"] afterwards.  The
\* text-mode read inside yaml.safe_load raises UnicodeDecodeError, which is
\* neither a YAMLError nor an OSError.
load_cache_file(kind, file) ==
    LET empty == [k \in LkKeys(kind) |-> NoEntry]
        left(exc) == [raised |-> exc, adopted |-> FALSE, cache |-> empty]
    IN CASE file.how = "missing" -> left(None)
         [] file.how = "unreadable" -> left(None)
         [] file.how = "undecodable" -> left("UnicodeDecodeError")
         [] file.how = "unparseable" -> left(None)
         [] file.how \in {"null", "list"} -> left(None)
         [] file.how = "mapping" ->
              IF file.version = "1.0" /\ file.cache = "mapping"
              THEN [raised |-> None, adopted |-> TRUE, cache |-> file.entries]
              ELSE left(None)

\* __init__: the default cache_data, then load_cache when caching is enabled
manager_init(kind, enabled, file) ==
    IF enabled THEN load_cache_file(kind, file)
    ELSE [raised |-> None, adopted |-> FALSE, cache |-> [k \in LkKeys(kind) |-> NoEntry]]

LkLast(op, key, out, upd, arg) ==
    [op |-> op, key |-> key, out |-> out, upd |-> upd, arg |-> arg,
     entry |-> IF key \in DOMAIN lk.cache THEN lk.cache[key] ELSE NoEntry,
     stat |-> lk.stat,
     cache |-> lk.cache]

\* A string or None written by yaml.dump and read back by yaml.safe_load.
\* The representer writes None as the plain scalar null and quotes a string
\* that would, as a plain scalar, resolve to something else; the constructor
\* resolves a plain scalar to null or a number where it looks like one and
\* takes a quoted one as the string it holds.
yaml_dump_load(value) ==
    LET represent(v) ==
            IF v = None THEN [style |-> "plain", text |-> "null"]
            ELSE IF v \in {"", "null", "~", "1.0"}
            THEN [style |-> "quoted", text |-> v]
            ELSE [style |-> "plain", text |-> v]
        construct(t) ==
            IF t.style = "quoted" THEN t.text
            ELSE IF t.text \in {"", "null", "~"} THEN None
            ELSE IF t.text = "1.0" THEN "float"
            ELSE t.text
    IN construct(represent(value))

\* save_cache without a failure: the file at cache_path afterwards, as the
\* mapping it parses to (numbers are written and read back as numbers).
save_cache_file(cache) ==
    [how |-> "mapping", version |-> yaml_dump_load("1.0"), cache |-> "mapping",
     entries |-> [k \in DOMAIN cache |->
                    IF ~cache[k].present \/ cache[k].shape = "scalar" THEN cache[k]
                    ELSE [cache[k] EXCEPT !.status = yaml_dump_load(@),
                                          !.error = yaml_dump_load(@)]]]

\* A manager of this kind is constructed on this cache file.
LkStart(kind, enabled, file) ==
        LET load == manager_init(kind, enabled, file)
            cache == load.cache
        IN
        /\ fl = Idle
        /\ pk = Idle
        /\ rn = Idle
        /\ lk = [kind |-> kind, enabled |-> enabled, cache |-> cache,
                 file |-> file, load |-> [raised |-> load.raised, adopted |-> load.adopted],
                 stat |-> [exists |-> TRUE, mtime |-> 1],
                 last |-> [op |-> "init", key |-> None, out |-> NoneResult,
                           upd |-> NoUpdate, arg |-> NoneResult, entry |-> NoEntry,
                           stat |-> [exists |-> TRUE, mtime |-> 1],
                           cache |-> cache]]

\* Another process (or a fix) rewrites or touches the file: its mtime changes.
LkTouch ==
    /\ lk.stat.exists
    /\ \E m \in 1..MaxMtime :
         /\ m # lk.stat.mtime
         /\ lk' = [lk EXCEPT !.stat.mtime = m,
                             !.last = LkLast("touch", None, NoneResult, NoUpdate, NoneResult)]
    /\ UNCHANGED <<fl, pk, rn>>

\* The file is deleted: stat raises OSError from now on.
LkDelete ==
    /\ lk.stat.exists
    /\ lk' = [lk EXCEPT !.stat.exists = FALSE,
                        !.last = LkLast("delete", None, NoneResult, NoUpdate, NoneResult)]
    /\ UNCHANGED <<fl, pk, rn>>

LkCreate ==
    /\ ~lk.stat.exists
    /\ \E m \in 1..MaxMtime :
         lk' = [lk EXCEPT !.stat = [exists |-> TRUE, mtime |-> m],
                          !.last = LkLast("create", None, NoneResult, NoUpdate, NoneResult)]
    /\ UNCHANGED <<fl, pk, rn>>

\* get_cached_result(language, tool, file): the entry is read under the lock,
\* then the file is stat-ed.
LkLookup ==
    /\ lk.load.raised = None
    /\ \E key \in LkKeys(lk.kind) :
         lk' = [lk EXCEPT !.last =
                  LkLast("lookup", key,
                         get_cached_result(lk.kind, lk.enabled, lk.cache[key], lk.stat),
                         NoUpdate, NoneResult)]
    /\ UNCHANGED <<fl, pk, rn>>

\* update_cache(language, tool, file, result), for the verdicts a check hands
\* to it
LkStore ==
    /\ lk.load.raised = None
    /\ \E key \in LkKeys(lk.kind),
          r \in IF lk.kind = "lint"
                THEN {FileResult("OK", None), FileResult("ISSUE", "msg"),
                      FileResult("ISSUE", ""), FileResult("ERROR", "msg")}
                ELSE {HeaderCheckResult("OK", None, None, ThisYear),
                      HeaderCheckResult("ISSUE", None, "MISSING", ThisYear),
                      HeaderCheckResult("ISSUE", None, "INCORRECT", ThisYear),
                      HeaderCheckResult("ERROR", "msg", None, ThisYear)} :
         LET upd == update_cache(lk.kind, lk.enabled, lk.stat, r) IN
           lk' = [lk EXCEPT !.cache = IF upd.op = "store"
                                      THEN [lk.cache EXCEPT ![key] = upd.entry]
                                      ELSE lk.cache,
                            !.last = LkLast("store", key, NoneResult, upd, r)]
    /\ UNCHANGED <<fl, pk, rn>>

\* The command ends with save_cache and is run again: the manager of the
\* next run is constructed on the file that was written.
LkReload ==
    /\ lk.enabled
    /\ lk.load.raised = None
    /\ LET file == save_cache_file(lk.cache)
           load == manager_init(lk.kind, lk.enabled, file)
       IN lk' = [lk EXCEPT !.file = file, !.cache = load.cache,
                           !.load = [raised |-> load.raised, adopted |-> load.adopted],
                           !.last = LkLast("reload", None, NoneResult, NoUpdate, NoneResult)]
    /\ UNCHANGED <<fl, pk, rn>>

LkInit ==
    \E kind \in {"lint", "license"}, enabled \in BOOLEAN :
      \E file \in CacheFiles(kind) : LkStart(kind, enabled, file)

LkNext == LkTouch \/ LkDelete \/ LkCreate \/ LkLookup \/ LkStore \/ LkReload

SpecLookup == LkInit /\ [][LkNext]_vars

\* The same manager constructed on a corrupt cache file.
SpecCorrupt ==
    /\ \E kind \in {"lint", "license"}, enabled \in BOOLEAN :
         \E file \in CorruptFiles(kind) : LkStart(kind, enabled, file)
    /\ [][LkNext]_vars

(***************************************************************************)
(* save_cache and load_cache on the cache directory (specification         *)
(* SpecFlush).  The two managers' save_cache and load_cache are the same   *)
(* code.  cache_data is the set of the keys it holds; a file is the        *)
(* sequence of the lines written to it.                                    *)
(***************************************************************************)
MaxEntries == 2

RECURSIVE SortedLines(_)
SortedLines(S) ==
    IF S = {} THEN <<>>
    ELSE LET k == CHOOSE x \in S : \A y \in S : x <= y
         IN <<[t |-> "entry", k |-> k]>> \o SortedLines(S \ {k})

\* yaml.dump(self.cache_data, f, default_flow_style=False): a block mapping
\* with its keys sorted, so "cache" and its entries come before "version".
yaml_dump(data) ==
    <<[t |-> "cache", k |-> 0]>> \o SortedLines(data) \o <<[t |-> "version", k |-> 0]>>

NoFile == [exists |-> FALSE, lines |-> <<>>]
File(lines) == [exists |-> TRUE, lines |-> lines]

\* The names in the cache directory.
cache_path == "lint_cache.yaml"

\* pathlib's with_suffix(".tmp") on the cache file's name
with_suffix_tmp(name) ==
    CASE name = "lint_cache.yaml" -> "lint_cache.tmp"
      [] name = "license_headers_cache.yaml" -> "license_headers_cache.tmp"
      [] OTHER -> name

\* temp_path = self.cache_path.with_suffix(".tmp")
temp_path_direct == cache_path
temp_path == with_suffix_tmp(cache_path)

\* load_cache on the file at cache_path: what it leaves in self.cache_data
\* ("adopted": the file's mapping was taken).  yaml.safe_load gives None for
\* an empty file and a mapping without "version" for a file cut before its
\* last line; a line that does not belong raises YAMLError, which is caught.
load_cache(file) ==
    IF ~file.exists THEN [adopted |-> FALSE, data |-> {}]
    ELSE LET n == Len(file.lines)
             isDoc == /\ n >= 2
                      /\ file.lines[1].t = "cache"
                      /\ file.lines[n].t = "version"
                      /\ \A i \in 2..(n - 1) : file.lines[i].t = "entry"
         IN IF isDoc
            THEN [adopted |-> TRUE, data |-> {file.lines[i].k : i \in 2..(n - 1)}]
            ELSE [adopted |-> FALSE, data |-> {}]

FlInit ==
    /\ lk = Idle
    /\ pk = Idle
    /\ rn = Idle
    /\ \E enabled \in BOOLEAN, data \in SUBSET (1..MaxEntries),
          old \in {NoFile} \cup {File(yaml_dump(d)) : d \in SUBSET (1..MaxEntries)},
          stale \in {NoFile, File(<<[t |-> "cache", k |-> 0]>>)},
          parent \in BOOLEAN :
         /\ (old.exists \/ stale.exists) => parent
         /\ enabled => load_cache(old).data \subseteq data
         /\ ~enabled => data = {}
         /\ fl = [enabled |-> enabled, data |-> data, parent |-> parent,
                  dir |-> [n \in {"lint_cache.yaml", "lint_cache.tmp"} |->
                             IF n = cache_path THEN old
                             ELSE IF n = with_suffix_tmp(cache_path) THEN stale
                             ELSE NoFile],
                  old |-> old, pc |-> "call", pos |-> 0, how |-> "running",
                  loaded |-> [adopted |-> FALSE, data |-> {}]]

\* save_cache, lines 74-77: the early return, then parent.mkdir(parents=True,
\* exist_ok=True), which is outside the try: its OSError leaves save_cache.
FlMkdir ==
    /\ fl.pc = "call"
    /\ \/ /\ ~fl.enabled
          /\ fl' = [fl EXCEPT !.pc = "returned", !.how = "returned"]
       \/ /\ fl.enabled
          /\ fl' = [fl EXCEPT !.parent = TRUE, !.pc = "mkdir"]
       \/ /\ fl.enabled
          /\ ~fl.parent
          /\ fl' = [fl EXCEPT !.pc = "raised", !.how = "raised"]
    /\ UNCHANGED <<lk, pk, rn>>

\* line 81: open(temp_path, "w") creates or truncates the temporary file
FlOpen ==
    /\ fl.pc = "mkdir"
    /\ \/ fl' = [fl EXCEPT !.dir[temp_path] = File(<<>>), !.pos = 0, !.pc = "open"]
       \/ fl' = [fl EXCEPT !.pc = "except"]
    /\ UNCHANGED <<lk, pk, rn>>

\* line 82: yaml.dump writes the next line of the document
FlWrite ==
    /\ fl.pc = "open"
    /\ fl.pos < Len(yaml_dump(fl.data))
    /\ \/ fl' = [fl EXCEPT !.dir[temp_path] =
                             File(@.lines \o <<yaml_dump(fl.data)[fl.pos + 1]>>),
                           !.pos = @ + 1]
       \/ fl' = [fl EXCEPT !.pc = "except"]
    /\ UNCHANGED <<lk, pk, rn>>

\* the end of the with block: the file is closed
FlClose ==
    /\ fl.pc = "open"
    /\ fl.pos = Len(yaml_dump(fl.data))
    /\ fl' = [fl EXCEPT !.pc = "closed"]
    /\ UNCHANGED <<lk, pk, rn>>

\* line 83: temp_path.replace(self.cache_path), an atomic rename
FlReplace ==
    /\ fl.pc = "closed"
    /\ \/ fl' = [fl EXCEPT !.dir = [n \in {"lint_cache.yaml", "lint_cache.tmp"} |->
                                      IF n = cache_path THEN fl.dir[temp_path]
                                      ELSE IF n = temp_path THEN NoFile
                                      ELSE fl.dir[n]],
                           !.pc = "returned", !.how = "returned"]
       \/ fl' = [fl EXCEPT !.pc = "except"]
    /\ UNCHANGED <<lk, pk, rn>>

\* lines 84-86: except OSError: remove the temporary file if it exists
\* (an OSError of unlink leaves save_cache)
FlExcept ==
    /\ fl.pc = "except"
    /\ \/ fl' = [fl EXCEPT !.dir[temp_path] = NoFile, !.pc = "returned",
                           !.how = "swallowed"]
       \/ /\ fl.dir[temp_path].exists
          /\ fl' = [fl EXCEPT !.pc = "raised", !.how = "raised"]
    /\ UNCHANGED <<lk, pk, rn>>

\* The process is interrupted (killed) anywhere in save_cache.
FlKill ==
    /\ fl.pc \in {"call", "mkdir", "open", "closed", "except"}
    /\ fl' = [fl EXCEPT !.pc = "killed", !.how = "killed"]
    /\ UNCHANGED <<lk, pk, rn>>

\* A later run constructs its manager: load_cache reads the file.
FlLoad ==
    /\ fl.pc \in {"returned", "raised", "killed"}
    /\ fl' = [fl EXCEPT !.loaded = load_cache(fl.dir[cache_path]), !.pc = "loaded"]
    /\ UNCHANGED <<lk, pk, rn>>

SpecFlush ==
    FlInit /\ [][FlMkdir \/ FlOpen \/ FlWrite \/ FlClose \/ FlReplace \/ FlExcept \/ FlKill \/ FlLoad]_vars

(***************************************************************************)
(* run_package_level_lint (specification SpecPkg).  A path and an output   *)
(* line are sequences of tokens; `x in y` on strings is the search of a    *)
(* contiguous subsequence.                                                 *)
(***************************************************************************)
MaxLines == 2

\* str.lower() on a line, token by token
LowerLine(line) ==
    LET Lower(tok) ==
        CASE tok = "ERROR:" -> "error:"
          [] tok = "Traceback" -> "traceback"
          [] tok = "Assertion" -> "assertion"
          [] OTHER -> tok
    IN [i \in DOMAIN line |-> Lower(line[i])]

\* needle in line
Contains(line, needle) ==
    \E i \in 1..(Len(line) - Len(needle) + 1) :
        SubSeq(line, i, i + Len(needle) - 1) = needle

\* The files of the language configuration, in the collector's order, each
\* with its path relative to the root (format_file_path).
PkFiles == <<"a.py", "a.pyi", "d\\b.py">>
PkFileSet == {PkFiles[i] : i \in DOMAIN PkFiles}

format_file_path(f) ==
    CASE f = "a.py" -> <<"a", ".py">>
      [] f = "a.pyi" -> <<"a", ".py", "i">>
      [] f = "d\\b.py" -> <<"d", "\\", "b", ".py">>

\* marker in text.lower(), for a text given as its lines
HasMarker(lines, marker) ==
    \E i \in DOMAIN lines : Contains(LowerLine(lines[i]), <<marker>>)

\* Lines 298-300 and 306-308: whether the output mentions the file, and the
\* lines of the output that do.
NamesFile(line, f) ==
    \/ Contains(line, format_file_path(f))
    \/ LET file_path_str == format_file_path(f)
           \* file_path_str.replace("\\", "/")
           file_path_normalized ==
               [i \in DOMAIN file_path_str |->
                   IF file_path_str[i] = "\\" THEN "/" ELSE file_path_str[i]]
       IN Contains(line, file_path_normalized)

FileLines(output, f) == SelectSeq(output, LAMBDA line : NamesFile(line, f))

\* A variant that takes a failed run to fail every file of the set.
package_file_result_all_fail(f, returncode, output) ==
    IF returncode = 0 THEN FileResult("OK", None)
    ELSE IF \/ HasMarker(output, "error:")
            \/ HasMarker(output, "traceback")
            \/ HasMarker(output, "assertion")
    THEN FileResult("ERROR", "relevant_output")
    ELSE FileResult("ISSUE", "relevant_output")

\* Lines 297-321: the result of one file of the set
package_file_result(f, returncode, output) ==
    IF returncode = 0 THEN FileResult("OK", None)
    ELSE IF \E i \in DOMAIN output : NamesFile(output[i], f)
    THEN LET relevant_output == FileLines(output, f) IN
         IF \/ HasMarker(relevant_output, "error:")
            \/ HasMarker(output, "traceback")
            \/ HasMarker(output, "assertion")
         THEN FileResult("ERROR", "relevant_output")
         ELSE IF \/ HasMarker(relevant_output, "warning:")
                 \/ HasMarker(relevant_output, "note:")
         THEN IF HasMember("WARNING")
              THEN FileResult("WARNING", "relevant_output")
              ELSE Raise("AttributeError")
         ELSE FileResult("ISSUE", "relevant_output")
    ELSE FileResult("OK", None)

\* Lines 325-330: each iteration replaces the whole dict of the key by a
\* dict of one file, so the dict of the last file is what stays.
package_failure_results(files) ==
    [f \in {files[i] : i \in DOMAIN files} |->
        IF f = files[Len(files)]
        THEN FileResult("ERROR", "Failed to run package-level linting")
        ELSE NoneResult]

\* get_package_result(cache_key, file_path) on the dict stored under the key
get_package_result(results, f) == results[f]

NoPackageResults(files) == [f \in {files[i] : i \in DOMAIN files} |-> NoneResult]

\* run_package_level_lint: the dict stored under the key when it returns.
\* launched = FALSE: subprocess.run raised.
run_package_level_lint(files, launched, returncode, output, package_level_results) ==
    IF get_package_result(package_level_results, files[1]).kind # "none"
    THEN package_level_results
    ELSE IF ~launched THEN package_failure_results(files)
    ELSE LET file_results ==
                 [f \in {files[i] : i \in DOMAIN files} |->
                     package_file_result(f, returncode, output)]
         IN IF \E f \in DOMAIN file_results : file_results[f].kind = "raise"
            THEN package_failure_results(files)
            ELSE file_results

\* check_file_lint for a package-level step (lines 339-345)
check_file_lint_package(results, f) ==
    IF get_package_result(results, f).kind # "none"
    THEN get_package_result(results, f)
    ELSE FileResult("ERROR", "Package-level linting not run")

\* check_file_lint for a per-file step, lines 347-377.
\* FileResult(file_path, FileStatus.WARNING, ...): the member is looked up when
\* the line runs; the AttributeError is caught by check_file_lint's
\* `except Exception` and becomes an ERROR result carrying str(e).
check_file_lint(run) ==
    LET \* output.strip()
        stripped == IF run.output = <<>> THEN "" ELSE "output"
        warning_result ==
            IF HasMember("WARNING") THEN FileResult("WARNING", stripped)
            ELSE FileResult("ERROR", "AttributeError")
    IN IF ~run.launched THEN FileResult("ERROR", "str(e)")
       ELSE IF run.returncode = 0
       THEN IF HasMarker(run.output, "warning:") \/ HasMarker(run.output, "note:")
            THEN warning_result
            ELSE FileResult("OK", None)
       ELSE IF \/ HasMarker(run.output, "error:")
               \/ HasMarker(run.output, "traceback")
               \/ HasMarker(run.output, "assertion")
       THEN FileResult("ERROR", stripped)
       ELSE IF HasMarker(run.output, "warning:") \/ HasMarker(run.output, "note:")
       THEN warning_result
       ELSE FileResult("ISSUE", stripped)

\* Lines a package-level tool may print.
SampleLines ==
    { <<"a", ".py", ":", "error:", "x">>,
      <<"a", ".py", "i", ":", "error:", "x">>,
      <<"a", ".py", ":", "x">>,
      <<"a", ".py", ":", "warning:", "x">>,
      <<"d", "/", "b", ".py", ":", "ERROR:", "x">>,
      <<"d", "\\", "b", ".py", ":", "note:">>,
      <<"Traceback", "x">>,
      <<"Assertion", "x">>,
      <<"error:", "x">>,
      <<"Found", "x">> }

RECURSIVE SeqsUpTo(_, _)
SeqsUpTo(S, n) ==
    IF n = 0 THEN {<<>>}
    ELSE LET shorter == SeqsUpTo(S, n - 1)
         IN shorter \cup {Append(q, x) : q \in shorter, x \in S}

PkInit ==
    /\ lk = Idle
    /\ fl = Idle
    /\ rn = Idle
    /\ \E launched \in BOOLEAN, returncode \in {0, 1},
          output \in SeqsUpTo(SampleLines, MaxLines), again \in BOOLEAN,
          mode \in {"check", "fix"}, enabled \in BOOLEAN :
         /\ ~launched => (returncode = 0 /\ output = <<>>)
         /\ mode = "fix" => ~again
         /\ pk = [mode |-> mode, enabled |-> enabled,
                  launched |-> launched, returncode |-> returncode,
                  output |-> output, again |-> again, pc |-> "start",
                  results |-> NoPackageResults(PkFiles),
                  checked |-> NoPackageResults(PkFiles),
                  cache |-> [f \in PkFileSet |-> NoEntry],
                  updated |-> [f \in PkFileSet |-> "none"],
                  perfile |-> NoneResult]

\* check_files_parallel, lines 482-484: the package-level step is run before
\* the pool is created.  fix_files_parallel (lines 583-595) has no such loop:
\* it goes from its first line to the pool.
PkRun ==
    /\ pk.mode = "check"
    /\ pk.pc = "start" \/ (pk.pc = "ran" /\ pk.again)
    /\ pk' = [pk EXCEPT !.results =
                          run_package_level_lint(PkFiles, pk.launched, pk.returncode,
                                                 pk.output, pk.results),
                        !.pc = IF pk.pc = "start" THEN "ran" ELSE "ranagain"]
    /\ UNCHANGED <<lk, fl, rn>>

\* A worker's package-level step for one file, once the pass has submitted
\* the files to the pool (check_single_file 416-424, fix_single_file 522-529):
\* the cache of the run holds no entry of the step, so the lookup misses;
\* check_file_lint gives the result and update_cache gets it.  The file
\* exists, with modification time 1.
PkCheckFile ==
    /\ pk.pc \in {"ran", "ranagain"} \/ pk.mode = "fix"
    /\ \E f \in PkFileSet :
         /\ pk.checked[f].kind = "none"
         /\ LET result == check_file_lint_package(pk.results, f)
                upd == lint_update_cache(pk.enabled, [exists |-> TRUE, mtime |-> 1],
                                         result)
            IN pk' = [pk EXCEPT !.checked[f] = result,
                                !.updated[f] = upd.op,
                                !.cache[f] = IF upd.op = "store" THEN upd.entry
                                             ELSE @]
    /\ UNCHANGED <<lk, fl, rn>>

\* a worker's check_file_lint of a per-file step whose subprocess.run had
\* this outcome (lines 347-377)
PkCheckFileLint ==
    /\ pk.perfile.kind = "none"
    /\ pk' = [pk EXCEPT !.perfile =
                 check_file_lint([launched |-> pk.launched,
                                  returncode |-> pk.returncode,
                                  output |-> pk.output])]
    /\ UNCHANGED <<lk, fl, rn>>


SpecPkg == PkInit /\ [][PkRun \/ PkCheckFile \/ PkCheckFileLint]_vars

(***************************************************************************)
(* A command run after run (specification SpecRun): `lint check`,          *)
(* `lint fix`, `cls check` or `cls fix` over the files of one language     *)
(* configuration, with its worker pool, its cache manager, its statistics  *)
(* and its exit code, while another process may rewrite a file.            *)
(*                                                                         *)
(* A file is [mtime, content, readable, writable]; its content is the      *)
(* sequence of its lines.  For the lint tools a line that matters is one   *)
(* that carries a defect: "style" (a finding clang-tidy --fix removes),    *)
(* "stubborn" (a finding it cannot remove), "warn" (a warning), "broken"   *)
(* (a compile error), "analyze" (a finding of clang-check).                *)
(***************************************************************************)
MaxRuns == 2
MaxTouch == 1

\* config.collect_files() of the C/C++ configuration
RnFileList == <<"x.cpp", "y.cpp">>
RnFiles == {RnFileList[i] : i \in DOMAIN RnFileList}

LintStep(tool_name, can_fix, package_level) ==
    [tool_name |-> tool_name, can_fix |-> can_fix, package_level |-> package_level]

\* lint_steps of the C/C++ configuration
lint_steps ==
    <<LintStep("clang-tidy", TRUE, FALSE), LintStep("clang-check", FALSE, FALSE)>>

\* The license-header commands make one header check per file.
Steps(kind) ==
    IF kind = "lint" THEN lint_steps ELSE <<LintStep("license", TRUE, FALSE)>>

SourceFile(mtime, content, readable, writable) ==
    [mtime |-> mtime, content |-> content, readable |-> readable,
     writable |-> writable]

\* file_path.stat()
Stat(file) == [exists |-> TRUE, mtime |-> file.mtime]

Has(content, line) == \E i \in DOMAIN content : content[i] = line

\* subprocess.run of a lint step's check command on a file with this content:
\* what the tool prints and returns.
subprocess_run_check(tool_name, content) ==
    IF tool_name = "clang-tidy"
    THEN IF Has(content, "broken")
         THEN [launched |-> TRUE, returncode |-> 1,
               output |-> << <<"x", ".cpp", ":", "error:", "x">> >>]
         ELSE IF Has(content, "style") \/ Has(content, "stubborn")
         THEN [launched |-> TRUE, returncode |-> 1, output |-> << <<"Found", "x">> >>]
         ELSE IF Has(content, "warn")
         THEN [launched |-> TRUE, returncode |-> 0,
               output |-> << <<"x", ".cpp", ":", "warning:", "x">> >>]
         ELSE [launched |-> TRUE, returncode |-> 0, output |-> <<>>]
    ELSE IF Has(content, "analyze")
         THEN [launched |-> TRUE, returncode |-> 1, output |-> << <<"Found", "x">> >>]
         ELSE [launched |-> TRUE, returncode |-> 0, output |-> <<>>]

\* subprocess.run of a lint step's fix command: clang-tidy --fix removes the
\* findings it can and returns 0 when nothing is left for it to report.
subprocess_run_fix(tool_name, content) ==
    LET left == SelectSeq(content, LAMBDA line : line # "style")
    IN [returncode |-> IF Has(left, "stubborn") \/ Has(left, "broken") THEN 1 ELSE 0,
        content |-> left]

\* fix_file_lint: [fixed, content], the content being what the tool left
fix_file_lint(lint_step, content) ==
    IF ~lint_step.can_fix THEN [fixed |-> FALSE, content |-> content]
    ELSE LET result == subprocess_run_fix(lint_step.tool_name, content)
         IN [fixed |-> result.returncode = 0, content |-> result.content]

\* get_file_copyright_year: the year of the first commit of the file
get_file_copyright_year == ThisYear

\* The text of a file is the sequence of its pieces, "\n" the end of a line.
\* f.readlines(): the lines of the text, each with its "\n"; the last line has
\* none when the text does not end with one.
RECURSIVE readlines(_)
readlines(text) ==
    IF text = <<>> THEN <<>>
    ELSE LET ends == {i \in DOMAIN text : text[i] = "\n"}
             k == IF ends = {} THEN Len(text)
                  ELSE CHOOSE i \in ends : \A j \in ends : i <= j
         IN <<SubSeq(text, 1, k)>> \o readlines(SubSeq(text, k + 1, Len(text)))

\* f.writelines(lines): the lines one after the other, nothing added
RECURSIVE writelines(_)
writelines(lines) ==
    IF lines = <<>> THEN <<>> ELSE Head(lines) \o writelines(Tail(lines))

\* The header_generator handed to has_correct_license_header and fix_header:
\* the copyright line of the year, the license line and an empty line.
header_generator(year) ==
    << <<IF year = ThisYear THEN "copyright 2025" ELSE "copyright", "\n">>,
       <<"license", "\n">>, <<"\n">> >>

\* has_correct_license_header, lines 313-356
has_correct_license_header(file) ==
    IF ~file.readable
    THEN HeaderCheckResult("ERROR", "Permission denied", None, ThisYear)
    ELSE LET year == get_file_copyright_year
             expected_header == header_generator(year)
             lines == readlines(file.content)
             \* lines and lines[0].startswith("#!")
             header_offset == IF lines # <<>> /\ lines[1][1] = "#!sh" THEN 1 ELSE 0
             min_lines == Len(expected_header) + header_offset
         IN IF Len(lines) < min_lines
            THEN HeaderCheckResult("ISSUE", None, "MISSING", year)
            ELSE IF \E i \in DOMAIN expected_header :
                        lines[i + header_offset] # expected_header[i]
            THEN HeaderCheckResult("ISSUE", None, "INCORRECT", year)
            ELSE HeaderCheckResult("OK", None, None, year)

\* fix_header, lines 364-394: [fixed, content]
fix_header(file, year) ==
    IF ~file.readable THEN [fixed |-> FALSE, content |-> file.content]
    ELSE LET expected_header == header_generator(year)
             lines == readlines(file.content)
             \* lines and lines[0].startswith("#!")
             header_offset == IF lines # <<>> /\ lines[1][1] = "#!sh" THEN 1 ELSE 0
             shebang_line == IF header_offset = 1 THEN <<lines[1]>> ELSE <<>>
             min_lines == Len(expected_header) + header_offset
             header_correct ==
                 /\ Len(lines) >= min_lines
                 /\ \A i \in DOMAIN expected_header :
                        lines[i + header_offset] = expected_header[i]
             content_after_header == SubSeq(lines, header_offset + 1, Len(lines))
         IN IF header_correct THEN [fixed |-> FALSE, content |-> file.content]
            ELSE IF ~file.writable THEN [fixed |-> FALSE, content |-> file.content]
            ELSE [fixed |-> TRUE,
                  content |-> writelines(shebang_line) \o writelines(expected_header)
                                  \o writelines(content_after_header)]

(***************************************************************************)
(* The unit of work of one file: check_single_file and fix_single_file of  *)
(* lint.py and of check_license_headers.py, cut at the points where they   *)
(* read or write what other threads and processes share (the cache map,    *)
(* the file).  Each step is a function of a context c:                     *)
(*   c.w        the locals of the worker and, when it has ended, what its  *)
(*              future holds (.out)                                        *)
(*   c.file     the file            c.entries  the cache entries of the    *)
(*   file, by tool                  c.seen     for each entry, the mtime   *)
(*   of the version of the file its verdict was computed on                *)
(*   c.inv, c.fixinv, c.writes      the number of check invocations, fix   *)
(*   invocations and writes of the file made in this run                   *)
(***************************************************************************)
NoOut ==
    [kind |-> "pending", status |-> None, issue_type |-> None, outcome |-> None,
     msgs |-> <<>>, exc |-> None]
Returned(status, issue_type, outcome, msgs) ==
    [kind |-> "return", status |-> status, issue_type |-> issue_type,
     outcome |-> outcome, msgs |-> msgs, exc |-> None]
Raised(exc) ==
    [kind |-> "raise", status |-> None, issue_type |-> None, outcome |-> None,
     msgs |-> <<>>, exc |-> exc]

NewWorker ==
    [pc |-> "queued", step |-> 1, result |-> NoneResult, cached_count |-> 0,
     file_has_warnings |-> FALSE, file_has_issues |-> FALSE,
     file_has_errors |-> FALSE, file_had_issues |-> FALSE, all_fixed |-> TRUE,
     error_messages |-> <<>>, out |-> NoOut, collected |-> FALSE,
     seen |-> 0, served_stale |-> FALSE, verdicts |-> <<>>]

\* f"[{lint_step.tool_name}]\n{result.error}"
Msg(tool_name, error) == [tool |-> tool_name, error |-> error]

StepOf(c) == Steps(c.kind)[c.w.step]
KeyOf(c) == StepOf(c).tool_name

WorkerRaises(c, exc) == [c EXCEPT !.w.pc = "raised", !.w.out = Raised(exc)]

\* error_messages.append(...) under `if result.error:`
AppendMessage(c) ==
    IF Truthy(c.w.result.error)
    THEN [c EXCEPT !.w.error_messages = Append(@, Msg(KeyOf(c), c.w.result.error))]
    ELSE c

\* lint.py check_single_file, lines 439-473: the final status, the printing
\* of the file's line, the return
lint_check_return(c) ==
    LET w == c.w
        final_status == IF w.file_has_errors THEN "ERROR"
                        ELSE IF w.file_has_issues THEN "ISSUE"
                        ELSE IF w.file_has_warnings THEN "WARNING"
                        ELSE "OK"
        line444 == ~w.file_has_errors /\ ~w.file_has_issues /\ w.file_has_warnings
        line463 == final_status \notin {"ERROR", "ISSUE"}
    IN IF (line444 \/ line463) /\ ~HasMember("WARNING")
       THEN WorkerRaises(c, "AttributeError")
       ELSE [c EXCEPT !.w.pc = "done",
                      !.w.out = Returned(final_status, None, None, w.error_messages)]

\* lint.py fix_single_file, lines 552-580
lint_fix_return(c) ==
    LET w == c.w
        outcome == IF w.file_has_errors THEN "error"
                   ELSE IF ~w.file_had_issues THEN "skip"
                   ELSE IF w.all_fixed THEN "fixed"
                   ELSE "partial"
    IN [c EXCEPT !.w.pc = "done",
                 !.w.out = Returned(None, None, outcome, w.error_messages)]

\* the end of the body of `for lint_step in config.lint_steps`
lint_next(c) ==
    IF c.w.step < Len(Steps(c.kind))
    THEN [c EXCEPT !.w.step = @ + 1, !.w.pc = "lookup"]
    ELSE IF c.mode = "check" THEN lint_check_return(c) ELSE lint_fix_return(c)

\* lint.py check_single_file, lines 426-437
lint_check_classify(c) ==
    LET r == c.w.result
        c1 == [c EXCEPT !.w.verdicts = Append(@, r)]
    IN IF ~HasMember("WARNING") THEN WorkerRaises(c1, "AttributeError")
       ELSE IF r.status = "WARNING"
       THEN lint_next(AppendMessage([c1 EXCEPT !.w.file_has_warnings = TRUE]))
       ELSE IF r.status = "ISSUE"
       THEN lint_next(AppendMessage([c1 EXCEPT !.w.file_has_issues = TRUE]))
       ELSE IF r.status = "ERROR"
       THEN lint_next(AppendMessage([c1 EXCEPT !.w.file_has_errors = TRUE]))
       ELSE lint_next(c1)

\* lint.py fix_single_file, lines 531-550, up to the call of fix_file_lint
lint_fix_classify(c) ==
    LET r == c.w.result
        c1 == [c EXCEPT !.w.verdicts = Append(@, r)]
    IN IF r.status = "ERROR"
       THEN lint_fix_return(AppendMessage([c1 EXCEPT !.w.file_has_errors = TRUE]))
       ELSE IF r.status = "ISSUE"
       THEN IF StepOf(c).can_fix
            THEN [c1 EXCEPT !.w.file_had_issues = TRUE, !.w.pc = "fix"]
            ELSE lint_next(AppendMessage([c1 EXCEPT !.w.file_had_issues = TRUE,
                                                    !.w.all_fixed = FALSE]))
       ELSE lint_next(c1)

\* check_license_headers.py check_single_file, lines 457-472
license_check_classify(c) ==
    [c EXCEPT !.w.pc = "done",
              !.w.verdicts = Append(@, c.w.result),
              !.w.out = Returned(c.w.result.status, c.w.result.issue_type, None, <<>>)]

\* check_license_headers.py fix_single_file, lines 524-534, up to fix_header
license_fix_classify(c) ==
    LET c1 == [c EXCEPT !.w.verdicts = Append(@, c.w.result)]
    IN IF c.w.result.status = "ERROR"
       THEN [c1 EXCEPT !.w.pc = "done", !.w.out = Returned(None, None, "error", <<>>)]
       ELSE IF c.w.result.status = "OK"
       THEN [c1 EXCEPT !.w.pc = "done", !.w.out = Returned(None, None, "skip", <<>>)]
       ELSE [c1 EXCEPT !.w.pc = "fix"]

\* cached_result = cache_manager.get_cached_result(...); `if cached_result:`
w_lookup(c) ==
    LET r == get_cached_result(c.kind, c.enabled, c.entries[KeyOf(c)], Stat(c.file))
    IN IF r.kind = "raise" THEN WorkerRaises(c, r.exc)
       ELSE IF r.kind = "result"
       THEN [c EXCEPT !.w.result = r, !.w.cached_count = @ + 1, !.w.pc = "classify",
                      !.w.served_stale = @ \/ c.seen[KeyOf(c)] # c.file.mtime]
       ELSE [c EXCEPT !.w.pc = "invoke"]

\* result = check_file_lint(...) / has_correct_license_header(...)
w_invoke(c) ==
    LET r == IF c.kind = "lint"
             THEN check_file_lint(subprocess_run_check(KeyOf(c), c.file.content))
             ELSE has_correct_license_header(c.file)
    IN [c EXCEPT !.w.result = r, !.w.seen = c.file.mtime, !.w.pc = "store",
                 !.inv = @ + 1]

\* cache_manager.update_cache(..., result)
w_store(c) ==
    LET upd == update_cache(c.kind, c.enabled, Stat(c.file), c.w.result)
    IN IF upd.op = "raise" THEN WorkerRaises(c, upd.exc)
       ELSE IF upd.op = "store"
       THEN [c EXCEPT !.entries[KeyOf(c)] = upd.entry, !.seen[KeyOf(c)] = c.w.seen,
                      !.w.pc = "classify"]
       ELSE [c EXCEPT !.w.pc = "classify"]

\* the branch on result.status that follows
w_classify(c) ==
    IF c.kind = "lint"
    THEN IF c.mode = "check" THEN lint_check_classify(c) ELSE lint_fix_classify(c)
    ELSE IF c.mode = "check" THEN license_check_classify(c) ELSE license_fix_classify(c)

\* A variant that goes on to the next step and leaves the fix for later.
w_fix_deferred(c) == lint_next(c)

\* fixed = fix_file_lint(file_path, lint_step) / fix_header(file_path, ...):
\* the file is rewritten when its content changes
w_fix(c) ==
    LET res == IF c.kind = "lint" THEN fix_file_lint(StepOf(c), c.file.content)
               ELSE fix_header(c.file, c.w.result.year)
        written == res.content # c.file.content
        file == IF written
                THEN [c.file EXCEPT !.content = res.content, !.mtime = @ + 1]
                ELSE c.file
        c1 == [c EXCEPT !.file = file, !.fixinv = @ + 1,
                        !.writes = IF written THEN @ + 1 ELSE @,
                        !.w.seen = file.mtime]
    IN IF res.fixed THEN [c1 EXCEPT !.w.pc = "fixstore"]
       ELSE IF c.kind = "lint"
       THEN lint_next(AppendMessage([c1 EXCEPT !.w.all_fixed = FALSE]))
       ELSE [c1 EXCEPT !.w.pc = "done", !.w.out = Returned(None, None, "skip", <<>>)]

\* cache_manager.update_cache(..., ok_result) after a fix
w_fixstore(c) ==
    LET ok_result == IF c.kind = "lint" THEN FileResult("OK", None)
                     ELSE HeaderCheckResult("OK", None, None, c.w.result.year)
        upd == update_cache(c.kind, c.enabled, Stat(c.file), ok_result)
        c1 == IF upd.op = "store"
              THEN [c EXCEPT !.entries[KeyOf(c)] = upd.entry,
                             !.seen[KeyOf(c)] = c.w.seen]
              ELSE c
    IN IF upd.op = "raise" THEN WorkerRaises(c, upd.exc)
       ELSE IF c.kind = "lint" THEN lint_next(c1)
       ELSE [c1 EXCEPT !.w.pc = "done", !.w.out = Returned(None, None, "fixed", <<>>)]

\* One step of the worker, whatever it is at.
worker_step(c) ==
    CASE c.w.pc = "lookup" -> w_lookup(c)
      [] c.w.pc = "invoke" -> w_invoke(c)
      [] c.w.pc = "store" -> w_store(c)
      [] c.w.pc = "classify" -> w_classify(c)
      [] c.w.pc = "fix" -> w_fix(c)
      [] c.w.pc = "fixstore" -> w_fixstore(c)
      [] OTHER -> c

\* The worker run from its start to its end with nothing else running.
RECURSIVE run_alone(_)
run_alone(c) ==
    IF c.w.pc \in {"done", "raised"} THEN c
    ELSE IF c.w.pc = "queued" THEN run_alone([c EXCEPT !.w.pc = "lookup"])
    ELSE run_alone(worker_step(c))

(***************************************************************************)
(* utils/file_checking/statistics.py and LicenseHeaderStatistics.          *)
(***************************************************************************)
NoStats ==
    [total |-> 0, ok |-> 0, warnings |-> 0, issues |-> 0, errors |-> 0,
     fixed |-> 0, skipped |-> 0, missing |-> 0, incorrect |-> 0]

\* Statistics.record_result: the counters it leaves and whether it raised
\* (the comparison with FileStatus.WARNING is made when the status is not OK)
record_result(stats, status) ==
    LET s == [stats EXCEPT !.total = @ + 1]
    IN IF status = "OK" THEN [stats |-> [s EXCEPT !.ok = @ + 1], raised |-> FALSE]
       ELSE IF ~HasMember("WARNING") THEN [stats |-> s, raised |-> TRUE]
       ELSE IF status = "WARNING"
       THEN [stats |-> [s EXCEPT !.warnings = @ + 1], raised |-> FALSE]
       ELSE IF status = "ISSUE"
       THEN [stats |-> [s EXCEPT !.issues = @ + 1], raised |-> FALSE]
       ELSE IF status = "ERROR"
       THEN [stats |-> [s EXCEPT !.errors = @ + 1], raised |-> FALSE]
       ELSE [stats |-> s, raised |-> FALSE]

\* A variant that has no counter for INCORRECT.
license_record_result_missing_only(stats, status, issue_type) ==
    LET s == [stats EXCEPT !.total = @ + 1]
    IN IF status = "OK" THEN [s EXCEPT !.ok = @ + 1]
       ELSE IF status = "ISSUE"
       THEN IF issue_type = "MISSING"
            THEN [s EXCEPT !.issues = @ + 1, !.missing = @ + 1]
            ELSE [s EXCEPT !.issues = @ + 1]
       ELSE IF status = "ERROR" THEN [s EXCEPT !.errors = @ + 1]
       ELSE s

\* LicenseHeaderStatistics.record_result
license_record_result(stats, status, issue_type) ==
    LET s == [stats EXCEPT !.total = @ + 1]
    IN IF status = "OK" THEN [s EXCEPT !.ok = @ + 1]
       ELSE IF status = "ISSUE"
       THEN IF issue_type = "MISSING"
            THEN [s EXCEPT !.issues = @ + 1, !.missing = @ + 1]
            ELSE IF issue_type = "INCORRECT"
            THEN [s EXCEPT !.issues = @ + 1, !.incorrect = @ + 1]
            ELSE [s EXCEPT !.issues = @ + 1]
       ELSE IF status = "ERROR" THEN [s EXCEPT !.errors = @ + 1]
       ELSE s

\* Statistics.record_fix
record_fix(stats, fixed) ==
    IF fixed THEN [stats EXCEPT !.fixed = @ + 1] ELSE [stats EXCEPT !.skipped = @ + 1]

\* A variant that leaves total alone.
count_exception_errors_only(stats) == [stats EXCEPT !.errors = @ + 1]

\* the `except Exception` branch of the as_completed loops:
\* stats.total += 1; stats.errors += 1
count_exception(stats) == [stats EXCEPT !.total = @ + 1, !.errors = @ + 1]

\* lint.py check_files_parallel, lines 495-506, for one future
lint_check_collect(stats, out) ==
    IF out.kind = "raise" THEN count_exception(stats)
    ELSE LET rec == record_result(stats, out.status)
         IN IF rec.raised THEN count_exception(rec.stats) ELSE rec.stats

\* lint.py fix_files_parallel, lines 598-617, for one future
lint_fix_collect(stats, out) ==
    IF out.kind = "raise" THEN count_exception(stats)
    ELSE LET s == [stats EXCEPT !.total = @ + 1]
         IN IF out.outcome = "error" THEN [s EXCEPT !.errors = @ + 1]
            ELSE IF out.outcome = "skip" THEN record_fix(s, FALSE)
            ELSE IF out.outcome = "fixed" THEN record_fix(s, TRUE)
            ELSE record_fix(s, FALSE)

\* check_license_headers.py check_files_parallel, lines 493-504
license_check_collect(stats, out) ==
    IF out.kind = "raise" THEN count_exception(stats)
    ELSE license_record_result(stats, out.status, out.issue_type)

\* check_license_headers.py fix_files_parallel, lines 567-584
license_fix_collect(stats, out) ==
    IF out.kind = "raise" THEN count_exception(stats)
    ELSE LET s == [stats EXCEPT !.total = @ + 1]
         IN IF out.outcome = "error" THEN [s EXCEPT !.errors = @ + 1]
            ELSE IF out.outcome = "skip" THEN record_fix(s, FALSE)
            ELSE IF out.outcome = "fixed" THEN record_fix(s, TRUE)
            ELSE s

collect(kind, mode, stats, out) ==
    IF kind = "lint"
    THEN IF mode = "check" THEN lint_check_collect(stats, out)
         ELSE lint_fix_collect(stats, out)
    ELSE IF mode = "check" THEN license_check_collect(stats, out)
         ELSE license_fix_collect(stats, out)

\* Statistics.has_failures and LicenseHeaderStatistics.has_failures
has_failures(kind, stats) ==
    IF kind = "license"
    THEN stats.missing > 0 \/ stats.incorrect > 0 \/ stats.errors > 0
    ELSE stats.issues > 0 \/ stats.errors > 0

\* the exit code the command chooses after print_summary
exit_code(kind, mode, stats) ==
    IF mode = "check" THEN (IF has_failures(kind, stats) THEN 1 ELSE 0)
    ELSE IF stats.errors > 0 THEN 1 ELSE 0

(***************************************************************************)
(* The files a run finds.                                                  *)
(***************************************************************************)
\* The two files a run finds: for lint the content of each; for the license
\* headers [content, readable, writable] of each.
Fixtures(kind) ==
    IF kind = "lint"
    THEN {[i \in DOMAIN RnFileList |-> SourceFile(1, fx[i], TRUE, TRUE)] :
             fx \in { <<<<>>, <<>>>>,
                      <<<<"style">>, <<>>>>,
                      <<<<"warn", "analyze">>, <<"broken">>>>,
                      <<<<"analyze">>, <<"stubborn", "style">>>> }}
    ELSE {[i \in DOMAIN RnFileList |-> SourceFile(1, fx[i][1], fx[i][2], fx[i][3])] :
             fx \in
               { << << <<"copyright 2025", "\n", "license", "\n", "\n", "code", "\n">>,
                       TRUE, TRUE >>,
                    << <<"#!sh", "\n", "copyright 2025", "\n", "license", "\n", "\n">>,
                       TRUE, TRUE >> >>,
                 << << <<"code", "\n">>, TRUE, TRUE >>,
                    << <<"copyright 2025", "\n", "license", "\n", "\n", "code", "\n">>,
                       TRUE, TRUE >> >>,
                 << << <<"copyright 1999", "\n", "license", "\n", "\n", "code", "\n">>,
                       TRUE, TRUE >>,
                    << <<"copyright 2025", "\n", "license", "\n", "\n", "code", "\n">>,
                       FALSE, FALSE >> >>,
                 << << <<"#!sh", "\n", "code", "\n">>, TRUE, FALSE >>,
                    << <<"code", "\n">>, TRUE, TRUE >> >> }}

IndexOf(f) == CHOOSE i \in DOMAIN RnFileList : RnFileList[i] = f

NoEntries(kind) == [k \in LkKeys(kind) |-> NoEntry]

(***************************************************************************)
(* The state of a run (variable rn).                                       *)
(*   kind, mode, pool      the command, check or fix, the size of the pool *)
(*   run, enabled          the number of the run; not --no-cache           *)
(*   pc, code, how         where the command is; its exit code and how it  *)
(*                         came to it                                      *)
(*   files                 the files on disk                               *)
(*   cache, disk           cache_data["cache"] of the manager, by file and *)
(*                         tool; the cache file                            *)
(*   w, stats              the workers; the statistics                     *)
(*   seen, dseen, inv, fixinv, writes, touches, modNow, modPrev, flushed,  *)
(*   saves, start, prev    history kept for the properties                 *)
(***************************************************************************)
\* The command starts: the manager is constructed (load_cache when enabled),
\* the statistics are new.
NewRun(kind, mode, pool, run, enabled, files, disk, dseen, touches, modPrev, prev) ==
    LET loaded == enabled /\ disk.exists
        cache == [f \in RnFiles |-> IF loaded THEN disk.data[f] ELSE NoEntries(kind)]
        seen == [f \in RnFiles |-> IF loaded THEN dseen[f] ELSE [k \in LkKeys(kind) |-> 0]]
    IN [kind |-> kind, mode |-> mode, pool |-> pool, run |-> run,
        enabled |-> enabled,
        pc |-> IF kind = "lint" THEN "toolcheck" ELSE "pool",
        code |-> -1, how |-> "running",
        files |-> files, cache |-> cache, disk |-> disk,
        w |-> [f \in RnFiles |-> NewWorker], stats |-> NoStats,
        seen |-> seen, dseen |-> dseen,
        inv |-> [f \in RnFiles |-> 0], fixinv |-> [f \in RnFiles |-> 0],
        writes |-> [f \in RnFiles |-> 0],
        touches |-> touches, modNow |-> {}, modPrev |-> modPrev,
        flushed |-> FALSE, saves |-> 0,
        start |-> [files |-> files, cache |-> cache, seen |-> seen],
        prev |-> prev]

RnInit ==
    /\ lk = Idle
    /\ fl = Idle
    /\ pk = Idle
    /\ \E kind \in {"lint", "license"}, mode \in {"check", "fix"}, pool \in {1, 2},
          enabled \in BOOLEAN :
         \E fx \in Fixtures(kind) :
            rn = NewRun(kind, mode, pool, 1, enabled,
                        [f \in RnFiles |-> fx[IndexOf(f)]],
                        [exists |-> FALSE, data |-> [f \in RnFiles |-> NoEntries(kind)]],
                        [f \in RnFiles |-> [k \in LkKeys(kind) |-> 0]],
                        0, {},
                        [exists |-> FALSE, enabled |-> FALSE, flushed |-> FALSE,
                         passed |-> FALSE, outs |-> [f \in RnFiles |-> NoOut]])

Ctx(f) ==
    [kind |-> rn.kind, mode |-> rn.mode, enabled |-> rn.enabled, w |-> rn.w[f],
     file |-> rn.files[f], entries |-> rn.cache[f], seen |-> rn.seen[f],
     inv |-> rn.inv[f], fixinv |-> rn.fixinv[f], writes |-> rn.writes[f]]

Apply(f, c) ==
    rn' = [rn EXCEPT !.w[f] = c.w, !.files[f] = c.file, !.cache[f] = c.entries,
                     !.seen[f] = c.seen, !.inv[f] = c.inv, !.fixinv[f] = c.fixinv,
                     !.writes[f] = c.writes]

Running(f) == rn.w[f].pc \notin {"queued", "done", "raised"}

\* lint.py check/fix, the loop over check_tool_available: a tool that is not
\* there ends the command with sys.exit(1) before any file is looked at.
RnToolCheck ==
    /\ rn.pc = "toolcheck"
    /\ \/ rn' = [rn EXCEPT !.pc = "pool"]
       \/ rn' = [rn EXCEPT !.pc = "exited", !.code = 1, !.how = "toolmissing"]
    /\ UNCHANGED <<lk, fl, pk>>

\* A thread of the pool takes the next submitted file.
RnStart ==
    /\ rn.pc = "pool"
    /\ Cardinality({g \in RnFiles : Running(g)}) < rn.pool
    /\ \E f \in RnFiles :
         /\ rn.w[f].pc = "queued"
         /\ \A g \in RnFiles : IndexOf(g) < IndexOf(f) => rn.w[g].pc # "queued"
         /\ rn' = [rn EXCEPT !.w[f].pc = "lookup"]
    /\ UNCHANGED <<lk, fl, pk>>

RnLookup ==
    /\ \E f \in RnFiles : rn.w[f].pc = "lookup" /\ Apply(f, w_lookup(Ctx(f)))
    /\ UNCHANGED <<lk, fl, pk>>

RnInvoke ==
    /\ \E f \in RnFiles : rn.w[f].pc = "invoke" /\ Apply(f, w_invoke(Ctx(f)))
    /\ UNCHANGED <<lk, fl, pk>>

RnStore ==
    /\ \E f \in RnFiles : rn.w[f].pc = "store" /\ Apply(f, w_store(Ctx(f)))
    /\ UNCHANGED <<lk, fl, pk>>

RnClassify ==
    /\ \E f \in RnFiles : rn.w[f].pc = "classify" /\ Apply(f, w_classify(Ctx(f)))
    /\ UNCHANGED <<lk, fl, pk>>

RnFix ==
    /\ \E f \in RnFiles : rn.w[f].pc = "fix" /\ Apply(f, w_fix(Ctx(f)))
    /\ UNCHANGED <<lk, fl, pk>>

RnFixStore ==
    /\ \E f \in RnFiles : rn.w[f].pc = "fixstore" /\ Apply(f, w_fixstore(Ctx(f)))
    /\ UNCHANGED <<lk, fl, pk>>

\* The main thread takes a completed future from as_completed and counts it.
RnCollect ==
    /\ rn.pc = "pool"
    /\ \E f \in RnFiles :
         /\ rn.w[f].pc \in {"done", "raised"}
         /\ ~rn.w[f].collected
         /\ rn' = [rn EXCEPT !.w[f].collected = TRUE,
                             !.stats = collect(rn.kind, rn.mode, rn.stats, rn.w[f].out)]
    /\ UNCHANGED <<lk, fl, pk>>

\* A variant in which save_cache does not wait for the futures.
RnSaveEarly ==
    /\ rn.pc = "pool"
    /\ \/ /\ ~rn.enabled
          /\ rn' = [rn EXCEPT !.pc = "summary"]
       \/ /\ rn.enabled
          /\ rn' = [rn EXCEPT !.pc = "summary", !.flushed = TRUE, !.saves = @ + 1,
                              !.disk = [exists |-> TRUE, data |-> rn.cache],
                              !.dseen = rn.seen]
    /\ UNCHANGED <<lk, fl, pk>>

\* cache_manager.save_cache() once every future is counted.  With caching
\* enabled: the file is replaced; or an OSError inside the try is swallowed
\* and the file stays; or parent.mkdir raises (the directory is not there and
\* cannot be made), which ends the command with a traceback and exit code 1.
RnSave ==
    /\ rn.pc = "pool"
    /\ \A f \in RnFiles : rn.w[f].collected
    /\ \/ /\ ~rn.enabled
          /\ rn' = [rn EXCEPT !.pc = "summary"]
       \/ /\ rn.enabled
          /\ rn' = [rn EXCEPT !.pc = "summary", !.flushed = TRUE, !.saves = @ + 1,
                              !.disk = [exists |-> TRUE, data |-> rn.cache],
                              !.dseen = rn.seen]
       \/ /\ rn.enabled
          /\ rn' = [rn EXCEPT !.pc = "summary", !.saves = @ + 1]
       \/ /\ rn.enabled
          /\ ~rn.disk.exists
          /\ rn' = [rn EXCEPT !.pc = "exited", !.code = 1, !.how = "traceback",
                              !.saves = @ + 1]
    /\ UNCHANGED <<lk, fl, pk>>

\* stats.print_summary(mode), then sys.exit
RnExit ==
    /\ rn.pc = "summary"
    /\ rn' = [rn EXCEPT !.pc = "exited", !.how = "decided",
                        !.code = exit_code(rn.kind, rn.mode, rn.stats)]
    /\ UNCHANGED <<lk, fl, pk>>

\* The same command is run again, with or without --no-cache.
RnNextRun ==
    /\ rn.pc = "exited"
    /\ rn.run < MaxRuns
    /\ \E enabled \in BOOLEAN :
         rn' = NewRun(rn.kind, rn.mode, rn.pool, rn.run + 1, enabled, rn.files,
                      rn.disk, rn.dseen, rn.touches, rn.modNow,
                      [exists |-> TRUE, enabled |-> rn.enabled,
                       flushed |-> rn.flushed, passed |-> rn.how # "toolmissing",
                       outs |-> [f \in RnFiles |-> rn.w[f].out]])
    /\ UNCHANGED <<lk, fl, pk>>

\* Another process rewrites a file: new content, new mtime.
RnModify ==
    /\ rn.touches < MaxTouch
    /\ \E f \in RnFiles,
          content \in IF rn.kind = "lint" THEN {<<>>, <<"style">>}
                      ELSE {<<"copyright 2025", "\n", "license", "\n", "\n", "code", "\n">>,
                            <<"code", "\n">>} :
         /\ content # rn.files[f].content
         /\ rn' = [rn EXCEPT !.files[f].content = content,
                             !.files[f].mtime = @ + 1,
                             !.touches = @ + 1,
                             !.modNow = @ \cup {f}]
    /\ UNCHANGED <<lk, fl, pk>>

RnNext ==
    \/ RnToolCheck \/ RnStart \/ RnLookup \/ RnInvoke \/ RnStore \/ RnClassify
    \/ RnFix \/ RnFixStore \/ RnCollect \/ RnSave \/ RnExit \/ RnNextRun
    \/ RnModify

SpecRun == RnInit /\ [][RnNext]_vars

(***************************************************************************)
(* The start of a lint or format command (specification SpecTools): the    *)
(* loop over check_tool_available, then the loop over the language         *)
(* configurations, then the end of the command.  Here rn is                *)
(*   command, mode, enabled   lint or format, check or fix, not --no-cache *)
(*   path                     the programs that can be run                 *)
(*   files                    the configurations that have files           *)
(*   pc, config, step         where the command is                         *)
(*   collected, invoked, recorded, written, reported, code                 *)
(*                            what it has done so far                      *)
(***************************************************************************)
\* get_language_configs of lint.py (the tool_name of the lint_steps) and of
\* format.py (the formatter_tool), configuration by configuration.
required_tools(command) ==
    IF command = "lint"
    THEN << <<"clang-tidy", "clang-check">>, <<"mypy", "ruff">> >>
    ELSE << <<"clang-format">>, <<"ruff">> >>

\* A variant that looks for the tool itself only.
check_tool_available_direct(command, tool_name, path) ==
    tool_name \in path

\* check_tool_available: `<tool> --version`, or `uv run <tool> --version` for
\* mypy and ruff (lint.py) or ruff (format.py), returned 0; a program that
\* cannot be started raises FileNotFoundError, which gives False.
check_tool_available(command, tool_name, path) ==
    LET via_uv == IF command = "lint" THEN tool_name \in {"mypy", "ruff"}
                  ELSE tool_name = "ruff"
    IN IF via_uv THEN "uv" \in path /\ tool_name \in path
       ELSE tool_name \in path

TlInit ==
    /\ lk = Idle
    /\ fl = Idle
    /\ pk = Idle
    /\ \E command \in {"lint", "format"}, mode \in {"check", "fix"},
          enabled \in BOOLEAN, files \in SUBSET {1, 2},
          path \in SUBSET {"clang-tidy", "clang-check", "clang-format", "mypy",
                           "ruff", "uv"} :
         /\ command = "format" => ~enabled
         /\ rn = [command |-> command, mode |-> mode, enabled |-> enabled,
                  path |-> path, files |-> files, pc |-> "tools", config |-> 1,
                  step |-> 1, collected |-> {}, invoked |-> {}, recorded |-> 0,
                  written |-> FALSE, reported |-> None, code |-> -1]

\* One iteration of the first loop of check/fix: the tool is not available,
\* the error is printed and sys.exit(1) ends the command; or the loop goes on.
TlCheckTool ==
    /\ rn.pc = "tools"
    /\ LET tools == required_tools(rn.command)
           tool == tools[rn.config][rn.step]
       IN IF ~check_tool_available(rn.command, tool, rn.path)
          THEN rn' = [rn EXCEPT !.reported = tool, !.code = 1, !.pc = "exited"]
          ELSE IF rn.step < Len(tools[rn.config])
          THEN rn' = [rn EXCEPT !.step = @ + 1]
          ELSE IF rn.config < Len(tools)
          THEN rn' = [rn EXCEPT !.config = @ + 1, !.step = 1]
          ELSE rn' = [rn EXCEPT !.pc = "files", !.config = 1, !.step = 1]
    /\ UNCHANGED <<lk, fl, pk>>

\* One iteration of the second loop: config.collect_files(), and when there
\* are files, the check or fix of them with the tools of the configuration,
\* which records their results in stats.
TlProcess ==
    /\ rn.pc = "files"
    /\ LET tools == required_tools(rn.command)
           has_files == rn.config \in rn.files
       IN rn' = [rn EXCEPT
                   !.collected = @ \cup {rn.config},
                   !.invoked = IF has_files
                               THEN @ \cup {tools[rn.config][i] :
                                              i \in DOMAIN tools[rn.config]}
                               ELSE @,
                   !.recorded = IF has_files THEN @ + 1 ELSE @,
                   !.config = @ + 1,
                   !.pc = IF rn.config < Len(tools) THEN "files" ELSE "save"]
    /\ UNCHANGED <<lk, fl, pk>>

\* cache_manager.save_cache() (lint), print_summary and sys.exit with the
\* code that the statistics give.
TlFinish ==
    /\ rn.pc = "save"
    /\ \E code \in {0, 1}, saved \in BOOLEAN :
         /\ saved => (rn.command = "lint" /\ rn.enabled)
         /\ rn.recorded = 0 => code = 0
         /\ rn' = [rn EXCEPT !.written = saved, !.code = code, !.pc = "exited"]
    /\ UNCHANGED <<lk, fl, pk>>


SpecTools == TlInit /\ [][TlCheckTool \/ TlProcess \/ TlFinish]_vars

(***************************************************************************)
(* The File Collector (specification SpecCollect).  A path is the sequence *)
(* of its parts, a part a number that stands for a name, in the order of   *)
(* the names: 1 "a.c", 2 "b.h", 3 "d", 4 "e".  The tree has the            *)
(* directories d, d/e and e and a file of each name in some of them; here  *)
(* fl is [fs, extensions, search_dirs, specific_files, pc, files], fs the  *)
(* set of the files that exist.                                            *)
(***************************************************************************)
MaxDirs == 2

\* pathlib's p < q: the order of the tuples of parts
PathLess(p, q) ==
    \/ \E i \in 1..Len(p) :
          /\ i <= Len(q)
          /\ SubSeq(p, 1, i - 1) = SubSeq(q, 1, i - 1)
          /\ p[i] < q[i]
    \/ (Len(p) < Len(q) /\ SubSeq(q, 1, Len(p)) = p)

\* find_files_by_extensions: path.rglob("*" + extension) for each extension,
\* one after the other, then sorted().  The extensions of the model share no
\* suffix, so no path is found twice and the list is sorted as a set.
find_files_by_extensions(fs, path, extensions) ==
    LET suffix(p) == IF p[Len(p)] = 1 THEN ".c" ELSE ".h"
        rglob(extension) ==
            {p \in fs : /\ Len(p) > Len(path)
                        /\ SubSeq(p, 1, Len(path)) = path
                        /\ suffix(p) = extension}
        found == UNION {rglob(extensions[i]) : i \in DOMAIN extensions}
        RECURSIVE sorted(_)
        sorted(S) ==
            IF S = {} THEN <<>>
            ELSE LET least == CHOOSE p \in S : \A q \in S \ {p} : PathLess(p, q)
                 IN <<least>> \o sorted(S \ {least})
    IN sorted(found)

\* collect_files: the files of each search directory that exists, directory
\* after directory, then each explicit file that exists.
RECURSIVE collect_files(_, _, _, _)
collect_files(fs, extensions, search_dirs, specific_files) ==
    LET exists(p) == \E f \in fs : Len(f) >= Len(p) /\ SubSeq(f, 1, Len(p)) = p
    IN IF search_dirs # <<>>
       THEN (IF exists(Head(search_dirs))
             THEN find_files_by_extensions(fs, Head(search_dirs), extensions)
             ELSE <<>>)
            \o collect_files(fs, extensions, Tail(search_dirs), specific_files)
       ELSE SelectSeq(specific_files, exists)

CoInit ==
    /\ lk = Idle
    /\ pk = Idle
    /\ rn = Idle
    /\ \E fs \in SUBSET {<<3, 1>>, <<3, 2>>, <<3, 4, 1>>, <<4, 1>>, <<4, 2>>},
          extensions \in {<<".c">>, <<".h", ".c">>},
          search_dirs \in SeqsUpTo({<<3>>, <<3, 4>>, <<4>>}, MaxDirs),
          specific_files \in SeqsUpTo({<<3, 1>>, <<4, 2>>, <<2>>}, 1) :
         /\ \A i, j \in DOMAIN search_dirs : i # j => search_dirs[i] # search_dirs[j]
         /\ fl = [fs |-> fs, extensions |-> extensions, search_dirs |-> search_dirs,
                  specific_files |-> specific_files, pc |-> "start", files |-> <<>>]

\* config.collect_files()
CoCollect ==
    /\ fl.pc = "start"
    /\ fl' = [fl EXCEPT !.pc = "collected",
                        !.files = collect_files(fl.fs, fl.extensions, fl.search_dirs,
                                                fl.specific_files)]
    /\ UNCHANGED <<lk, pk, rn>>

SpecCollect == CoInit /\ [][CoCollect]_vars

(***************************************************************************)
(* The locks of a parallel pass (specification SpecLocks): cache_manager's *)
(* lock ("cache"), the output_lock of the pass ("output") and the lock of  *)
(* the statistics ("stats").  A thread is a list of operations and a       *)
(* position in it; an operation acquires a lock, releases it, or uses      *)
(* something the threads share: "cache_map" (cache_data["cache"]),         *)
(* "package_results", "year_cache", "stats" (a counter of the statistics), *)
(* "stdout" (a line written to standard output), "subprocess" (an external *)
(* tool running), "file".  The threads are the workers of the files and    *)
(* "main", which runs the package-level steps, creates the pool and takes  *)
(* the futures as they complete.  Here lk is                               *)
(*   kind, mode, enabled, config   the command and the configuration       *)
(*   phase                         "prelude" until the files are submitted *)
(*   th                            the threads: [ops, pc, out]             *)
(*   owner                         the thread that holds each lock         *)
(*   taken                         the futures main has taken              *)
(***************************************************************************)
\* `with lock:` around a body
WithLock(lock, body) ==
    <<[op |-> "acquire", arg |-> lock]>> \o body \o <<[op |-> "release", arg |-> lock]>>

Use(what) == <<[op |-> "use", arg |-> what]>>

\* A variant that keeps the cache lock from the lookup to the end of the tool.
step_ops_lock_through_tool(c) ==
    IF c.w.pc = "invoke"
    THEN WithLock("cache", Use("cache_map") \o Use("subprocess"))
    ELSE <<>>

\* What the worker does to the locks and to what is shared in the step it is
\* at (w_lookup ... w_fixstore), in the order of the code.
step_ops(c) ==
    LET next == worker_step(c)
        \* the `with output_lock:` block that ends the unit of work:
        \* print_status and, in lint, the messages when there are some
        report ==
            IF next.w.pc = "done"
            THEN WithLock("output",
                          Use("stdout") \o
                          (IF next.w.out.msgs # <<>> THEN Use("stdout") ELSE <<>>))
            ELSE <<>>
        \* update_cache: the lock is taken for the insert, after the stat and
        \* the status_map
        insert(result) ==
            IF update_cache(c.kind, c.enabled, Stat(c.file), result).op = "store"
            THEN WithLock("cache", Use("cache_map"))
            ELSE <<>>
        ok_result == IF c.kind = "lint" THEN FileResult("OK", None)
                     ELSE HeaderCheckResult("OK", None, None, c.w.result.year)
        \* fix_header's `except`: typer.echo of "Failed to fix", line 393
        fix_header_raised ==
            \/ ~c.file.readable
            \/ ~c.file.writable /\ has_correct_license_header(c.file).status # "OK"
    IN CASE c.w.pc = "lookup" ->
              \* get_cached_result: `with self.lock:` around the .get
              IF c.enabled THEN WithLock("cache", Use("cache_map")) ELSE <<>>
         [] c.w.pc = "invoke" ->
              IF c.kind = "lint"
              THEN \* check_file_lint of a per-file step: subprocess.run
                   Use("subprocess")
              ELSE \* has_correct_license_header: get_cached_year, git log,
                   \* cache_year, open
                   WithLock("cache", Use("year_cache")) \o Use("subprocess") \o
                   WithLock("cache", Use("year_cache")) \o Use("file")
         [] c.w.pc = "store" -> insert(c.w.result)
         [] c.w.pc = "classify" -> report
         [] c.w.pc = "fix" ->
              IF c.kind = "lint" THEN Use("subprocess") \o report
              ELSE Use("file") \o
                   (IF fix_header_raised THEN Use("stdout") ELSE <<>>) \o report
         [] c.w.pc = "fixstore" -> insert(ok_result) \o report
         [] OTHER -> <<>>

\* The operations of the unit of work from c to its end.
RECURSIVE worker_ops(_)
worker_ops(c) ==
    IF c.w.pc \in {"done", "raised"} THEN <<>>
    ELSE step_ops(c) \o worker_ops(worker_step(c))

\* The unit of work of file f of the Python configuration from step i on, in
\* a first run: both steps (mypy, then ruff) are package-level, so
\* check_file_lint asks get_package_result.  In check mode the package-level
\* run has passed; in fix mode there was none.  [ops, out]
RECURSIVE python_worker(_, _, _, _)
python_worker(f, mode, enabled, i) ==
    LET tool_name == IF i = 1 THEN "mypy" ELSE "ruff"
        results == IF mode = "check"
                   THEN run_package_level_lint(PkFiles, TRUE, 0, <<>>,
                                               NoPackageResults(PkFiles))
                   ELSE NoPackageResults(PkFiles)
        result == check_file_lint_package(results, f)
        upd == lint_update_cache(enabled, [exists |-> TRUE, mtime |-> 1], result)
        ops == (IF enabled THEN WithLock("cache", Use("cache_map")) ELSE <<>>) \o
               WithLock("cache", Use("package_results")) \o
               (IF upd.op = "store" THEN WithLock("cache", Use("cache_map")) ELSE <<>>)
        rest == IF i < 2 THEN python_worker(f, mode, enabled, i + 1)
                ELSE [ops |-> WithLock("output", Use("stdout")),
                      out |-> IF mode = "check" THEN Returned("OK", None, None, <<>>)
                              ELSE Returned(None, None, "skip", <<>>)]
    IN IF upd.op = "raise" THEN [ops |-> ops, out |-> Raised(upd.exc)]
       ELSE IF mode = "check" /\ ~HasMember("WARNING")
       THEN [ops |-> ops, out |-> Raised("AttributeError")]
       ELSE IF mode = "fix" /\ result.status = "ERROR"
       THEN [ops |-> ops \o WithLock("output", Use("stdout") \o Use("stdout")),
             out |-> Returned(None, None, "error", <<Msg(tool_name, result.error)>>)]
       ELSE [ops |-> ops \o rest.ops, out |-> rest.out]

\* What main does with one future of the as_completed loop.
\* A variant whose handler counts while it still holds the output lock, and
\* whose workers are recorded under the statistics lock with the line written
\* inside it.
collect_ops_nested(kind, mode, out) ==
    IF out.kind = "raise"
    THEN WithLock("output", Use("stdout") \o WithLock("stats", Use("stats")))
    ELSE WithLock("stats", Use("stats") \o WithLock("output", Use("stdout")))

collect_ops(kind, mode, out) ==
    LET threadsafe == WithLock("stats", Use("stats"))
        \* the `except Exception` branch: the error line, total, errors
        handler(increment) == WithLock("output", Use("stdout")) \o increment \o increment
    IN IF kind = "lint"
       THEN IF out.kind = "raise" THEN handler(threadsafe)
            ELSE IF mode = "check"
            THEN \* record_result_threadsafe; record_result may raise inside it
                 threadsafe \o
                 (IF record_result(NoStats, out.status).raised
                  THEN handler(threadsafe) ELSE <<>>)
            ELSE \* increment_total_threadsafe, then one of the three others
                 threadsafe \o threadsafe
       ELSE IF out.kind = "raise" THEN handler(Use("stats"))
            ELSE IF mode = "check"
            THEN \* stats.record_result(result, issue_type)
                 Use("stats")
            ELSE \* stats.total += 1, then stats.errors += 1 or stats.record_fix
                 Use("stats") \o Use("stats")

LcInit ==
    /\ fl = Idle
    /\ pk = Idle
    /\ rn = Idle
    /\ \E kind \in {"lint", "license"}, mode \in {"check", "fix"}, enabled \in BOOLEAN,
          config \in {"C/C++", "Python"}, warm \in BOOLEAN :
         /\ config = "Python" => (kind = "lint" /\ ~warm)
         /\ \E fx \in Fixtures(kind) :
              LET new == [NewWorker EXCEPT !.pc = "lookup"]
                  cold(f) ==
                      [kind |-> kind, mode |-> mode, enabled |-> enabled, w |-> new,
                       file |-> fx[IndexOf(f)], entries |-> NoEntries(kind),
                       seen |-> [k \in LkKeys(kind) |-> 0],
                       inv |-> 0, fixinv |-> 0, writes |-> 0]
                  \* warm: the same command has run before
                  start(f) == IF warm THEN [run_alone(cold(f)) EXCEPT !.w = new]
                              ELSE cold(f)
                  workers == IF config = "Python" THEN {PkFiles[1], PkFiles[2]}
                             ELSE RnFiles
                  \* check_files_parallel, lines 482-484: run_package_level_lint
                  \* of each package-level step (get_package_result, the tool,
                  \* set_package_results)
                  package_ops ==
                      WithLock("cache", Use("package_results")) \o Use("subprocess") \o
                      WithLock("cache", Use("package_results"))
                  thread(t) ==
                      IF t = "main"
                      THEN [ops |-> IF config = "Python" /\ mode = "check"
                                    THEN package_ops \o package_ops ELSE <<>>,
                            pc |-> 1, out |-> NoOut]
                      ELSE IF config = "Python"
                      THEN LET p == python_worker(t, mode, enabled, 1)
                           IN [ops |-> p.ops, pc |-> 1, out |-> p.out]
                      ELSE [ops |-> worker_ops(start(t)), pc |-> 1,
                            out |-> run_alone(start(t)).w.out]
              IN lk = [kind |-> kind, mode |-> mode, enabled |-> enabled,
                       config |-> config, phase |-> "prelude",
                       th |-> [t \in workers \cup {"main"} |-> thread(t)],
                       owner |-> [l \in {"cache", "output", "stats"} |-> None],
                       taken |-> {}]

\* The operation thread t is at.
LcAt(t) ==
    IF lk.th[t].pc <= Len(lk.th[t].ops) THEN lk.th[t].ops[lk.th[t].pc]
    ELSE [op |-> "end", arg |-> None]

\* lock.acquire(): the thread waits until no thread holds the lock
LcAcquire ==
    /\ \E t \in DOMAIN lk.th :
         /\ t = "main" \/ lk.phase = "pool"
         /\ LcAt(t).op = "acquire"
         /\ lk.owner[LcAt(t).arg] = None
         /\ lk' = [lk EXCEPT !.owner[LcAt(t).arg] = t, !.th[t].pc = @ + 1]
    /\ UNCHANGED <<fl, pk, rn>>

LcRelease ==
    /\ \E t \in DOMAIN lk.th :
         /\ LcAt(t).op = "release"
         /\ lk' = [lk EXCEPT !.owner[LcAt(t).arg] = None, !.th[t].pc = @ + 1]
    /\ UNCHANGED <<fl, pk, rn>>

LcUse ==
    /\ \E t \in DOMAIN lk.th :
         /\ t = "main" \/ lk.phase = "pool"
         /\ LcAt(t).op = "use"
         /\ lk' = [lk EXCEPT !.th[t].pc = @ + 1]
    /\ UNCHANGED <<fl, pk, rn>>

\* main creates the pool and submits the files
LcSubmit ==
    /\ lk.phase = "prelude"
    /\ LcAt("main").op = "end"
    /\ lk' = [lk EXCEPT !.phase = "pool"]
    /\ UNCHANGED <<fl, pk, rn>>

\* as_completed hands main a completed future
LcTake ==
    /\ lk.phase = "pool"
    /\ LcAt("main").op = "end"
    /\ \E f \in DOMAIN lk.th \ ({"main"} \cup lk.taken) :
         /\ LcAt(f).op = "end"
         /\ lk' = [lk EXCEPT !.taken = @ \cup {f},
                             !.th["main"] =
                                 [ops |-> collect_ops(lk.kind, lk.mode, lk.th[f].out),
                                  pc |-> 1, out |-> NoOut]]
    /\ UNCHANGED <<fl, pk, rn>>

LcNext == LcAcquire \/ LcRelease \/ LcUse \/ LcSubmit \/ LcTake

SpecLocks == LcInit /\ [][LcNext]_vars

\* The threads of the pool and the main thread are threads of the operating
\* system: a thread that can take a step takes one eventually, and an
\* external tool that was started returns.
SpecLocksFair == SpecLocks /\ WF_vars(LcNext)

(***************************************************************************)
(* `format check` and `format fix` (specification SpecPasses): the loop    *)
(* over the language configurations, C/C++ (clang-format, file by file)    *)
(* and Python (ruff, package-level), with one Statistics for both.  Here   *)
(* pk is                                                                   *)
(*   mode                     check or fix                                 *)
(*   runs                     per C/C++ file, what the formatter does when *)
(*                            asked to check it                            *)
(*   fixed                    per C/C++ file, whether the fix run exits 0  *)
(*   launched, unformatted    the package check: subprocess.run returned,  *)
(*                            the files its "Would reformat" lines name    *)
(*   fix_launched, fix_returncode   the package fix run                    *)
(*   config, i, pc            where the command is                         *)
(*   package_results, stats, printed, how, code   what it has done         *)
(***************************************************************************)
\* get_language_configs: the two configurations, each with the files that
\* its collect_files gives.
FormatConfigs ==
    << [name |-> "C/C++", package_level |-> FALSE, files |-> <<"x.cpp", "y.cpp">>],
       [name |-> "Python", package_level |-> TRUE, files |-> <<"a.py", "b.py">>] >>

\* run_package_format_check, lines 96-138; unformatted is the set of resolved
\* paths parsed from the output.
run_package_format_check(files, launched, unformatted) ==
    [f \in {files[i] : i \in DOMAIN files} |->
        IF ~launched THEN FileResult("ERROR", "str(e)")
        ELSE IF f \in unformatted THEN FileResult("ISSUE", "File needs formatting")
        ELSE FileResult("OK", None)]

\* check_file_formatting, lines 141-169.  package_results is None exactly
\* when the configuration is not package-level (lines 193-195, 216-218).
check_file_formatting(f, package_level, package_results, run) ==
    IF package_level THEN package_results[f]
    ELSE IF ~run.launched THEN FileResult("ERROR", "str(e)")
    ELSE IF run.returncode = 0 THEN FileResult("OK", None)
    ELSE FileResult("ISSUE", "error_output")

\* A variant that counts a file whose fix run failed in total only.
format_fix_file_failure_uncounted(stats, result, package_level, files_to_fix, fix_launched, package_fix_success, fixed) ==
    LET s == [stats EXCEPT !.total = @ + 1]
    IN IF result.status = "OK" \/ (package_level /\ files_to_fix = {})
       THEN [stats |-> record_fix(s, FALSE), tag |-> "[SKIP]"]
       ELSE IF (package_level /\ fix_launched /\ package_fix_success)
                \/ (~package_level /\ result.status # "ERROR" /\ fixed)
       THEN [stats |-> record_fix(s, TRUE), tag |-> "[FIXED]"]
       ELSE [stats |-> s, tag |-> "[ERROR]"]

\* One iteration of the loops of fix_files.  Lines 262-287 for a file of a
\* configuration that is not package-level; lines 220-260 for a package-level
\* one, where files_to_fix and the fix run (lines 221-235) are the same for
\* every iteration: [stats, tag].
format_fix_file(stats, result, package_level, files_to_fix, fix_launched, package_fix_success, fixed) ==
    LET s == [stats EXCEPT !.total = @ + 1]
        error == [stats |-> [s EXCEPT !.errors = @ + 1], tag |-> "[ERROR]"]
        skip == [stats |-> record_fix(s, FALSE), tag |-> "[SKIP]"]
        done == [stats |-> record_fix(s, TRUE), tag |-> "[FIXED]"]
    IN IF package_level
       THEN IF files_to_fix = {} THEN skip
            ELSE IF ~fix_launched THEN error
            ELSE IF result.status = "OK" THEN skip
            ELSE IF package_fix_success THEN done
            ELSE error
       ELSE IF result.status = "ERROR" THEN error
            ELSE IF result.status = "OK" THEN skip
            ELSE IF fixed THEN done
            ELSE error

FmInit ==
    /\ lk = Idle
    /\ fl = Idle
    /\ rn = Idle
    /\ \E mode \in {"check", "fix"},
          runs \in [{"x.cpp", "y.cpp"} ->
                      {[launched |-> FALSE, returncode |-> 0],
                       [launched |-> TRUE, returncode |-> 0],
                       [launched |-> TRUE, returncode |-> 1]}],
          fixed \in [{"x.cpp", "y.cpp"} -> BOOLEAN],
          launched \in BOOLEAN, unformatted \in SUBSET {"a.py", "b.py"},
          fix_launched \in BOOLEAN, fix_returncode \in {0, 1} :
         /\ \A f \in DOMAIN fixed :
              fixed[f] => (mode = "fix" /\ runs[f].returncode = 1)
         /\ ~launched => unformatted = {}
         /\ mode = "check" => (fix_launched /\ fix_returncode = 0)
         /\ ~fix_launched => fix_returncode = 0
         /\ pk = [kind |-> "format", mode |-> mode, runs |-> runs, fixed |-> fixed,
                  launched |-> launched, unformatted |-> unformatted,
                  fix_launched |-> fix_launched,
                  fix_returncode |-> fix_returncode,
                  config |-> 1, i |-> 1, pc |-> "config",
                  package_results |-> <<>>, stats |-> NoStats,
                  printed |-> <<>>, how |-> None, code |-> -1]

\* check() 306-310 and fix() 345-349, the head of the loop over the
\* configurations, with lines 193-195 and 216-218 of the pass; after the last
\* configuration print_summary and sys.exit with the code of lines 314-326
\* and 353-361.
FmConfig ==
    /\ pk.kind = "format"
    /\ pk.pc = "config"
    /\ IF pk.config > Len(FormatConfigs)
       THEN pk' = [pk EXCEPT !.pc = "exited", !.how = "decided",
                             !.code = exit_code("format", pk.mode, pk.stats)]
       ELSE pk' = [pk EXCEPT
                     !.pc = "files", !.i = 1,
                     !.package_results =
                         IF FormatConfigs[pk.config].package_level
                         THEN run_package_format_check(FormatConfigs[pk.config].files,
                                                       pk.launched, pk.unformatted)
                         ELSE <<>>]
    /\ UNCHANGED <<lk, fl, rn>>

\* One iteration of check_files, lines 197-212.  An exception of
\* stats.record_result leaves check_files and check(): the command ends with
\* a traceback.
FmCheckFile ==
    /\ pk.kind = "format"
    /\ pk.pc = "files"
    /\ pk.mode = "check"
    /\ LET package_level == FormatConfigs[pk.config].package_level
           files == FormatConfigs[pk.config].files
           f == files[pk.i]
           last == pk.i = Len(files)
           result == check_file_formatting(f, package_level, pk.package_results,
                                           IF package_level THEN <<>> ELSE pk.runs[f])
           rec == record_result(pk.stats, result.status)
       IN IF rec.raised
          THEN pk' = [pk EXCEPT !.stats = rec.stats, !.pc = "exited",
                                !.how = "traceback", !.code = 1]
          ELSE pk' = [pk EXCEPT !.stats = rec.stats,
                                !.printed = Append(@, result.status),
                                !.i = IF last THEN @ ELSE @ + 1,
                                !.config = IF last THEN @ + 1 ELSE @,
                                !.pc = IF last THEN "config" ELSE @]
    /\ UNCHANGED <<lk, fl, rn>>

\* One iteration of fix_files.
FmFixFile ==
    /\ pk.kind = "format"
    /\ pk.pc = "files"
    /\ pk.mode = "fix"
    /\ LET package_level == FormatConfigs[pk.config].package_level
           files == FormatConfigs[pk.config].files
           f == files[pk.i]
           last == pk.i = Len(files)
           result == check_file_formatting(f, package_level, pk.package_results,
                                           IF package_level THEN <<>> ELSE pk.runs[f])
           files_to_fix ==
               IF package_level
               THEN {g \in DOMAIN pk.package_results :
                        pk.package_results[g].status # "OK"}
               ELSE {}
           it == format_fix_file(pk.stats, result, package_level, files_to_fix,
                                 pk.fix_launched, pk.fix_returncode = 0,
                                 IF package_level THEN FALSE ELSE pk.fixed[f])
       IN pk' = [pk EXCEPT !.stats = it.stats,
                           !.printed = Append(@, it.tag),
                           !.i = IF last THEN @ ELSE @ + 1,
                           !.config = IF last THEN @ + 1 ELSE @,
                           !.pc = IF last THEN "config" ELSE @]
    /\ UNCHANGED <<lk, fl, rn>>

\* The passes of the three commands that count files in a Statistics: a run
\* of `lint` or of the license-header command as in SpecRun, or a run of
\* `format`.
SpecPasses ==
    /\ RnInit \/ FmInit
    /\ [][\/ rn.kind # "idle" /\ RnNext
          \/ FmConfig
          \/ FmCheckFile
          \/ FmFixFile]_vars

(***************************************************************************)
(* fix_header followed by has_correct_license_header on one file           *)
(* (specification SpecHeader).  Here fl is                                 *)
(*   file          the file: [mtime, content, readable, writable]          *)
(*   year          the year handed to fix_header                           *)
(*   before        the text of the file before fix_header                  *)
(*   pc            "start", "fixed" (fix_header has returned), "checked"   *)
(*   fixed         what fix_header returned                                *)
(*   result        what has_correct_license_header returned                *)
(***************************************************************************)
MaxFileLines == 4

\* Any text of up to MaxFileLines pieces: a shebang line, header lines of
\* the year of the file, an empty line, a line of code, the last of them
\* with or without its "\n".
HdInit ==
    /\ lk = Idle
    /\ pk = Idle
    /\ rn = Idle
    /\ \E lines \in SeqsUpTo({<<"#!sh", "\n">>, <<"#!sh">>, <<"copyright 2025", "\n">>,
                               <<"license", "\n">>, <<"\n">>, <<"code", "\n">>,
                               <<"code">>}, MaxFileLines),
          year \in {ThisYear, ThisYear - 1}, readable \in BOOLEAN,
          writable \in BOOLEAN :
         /\ ~readable => ~writable
         /\ fl = [kind |-> "header", year |-> year,
                  file |-> SourceFile(1, writelines(lines), readable, writable),
                  before |-> writelines(lines), pc |-> "start", fixed |-> FALSE,
                  result |-> NoneResult]

\* fix_header(file_path, header_generator, year)
HdFix ==
    /\ fl.pc = "start"
    /\ LET res == fix_header(fl.file, fl.year)
       IN fl' = [fl EXCEPT !.pc = "fixed", !.fixed = res.fixed,
                           !.file.content = res.content,
                           !.file.mtime = IF res.fixed THEN @ + 1 ELSE @]
    /\ UNCHANGED <<lk, pk, rn>>

\* has_correct_license_header(file_path, header_generator) after it
HdCheck ==
    /\ fl.pc = "fixed"
    /\ fl' = [fl EXCEPT !.pc = "checked",
                        !.result = has_correct_license_header(fl.file)]
    /\ UNCHANGED <<lk, pk, rn>>

SpecHeader == HdInit /\ [][HdFix \/ HdCheck]_vars

(***************************************************************************)
(* Claims.                                                                 *)
(***************************************************************************)

\* The status string of the cache file format for a verdict.
VerdictString(kind, r) ==
    IF kind = "lint"
    THEN CASE r.status = "OK" -> "ok"
           [] r.status = "WARNING" -> "warning"
           [] r.status = "ISSUE" -> "issue"
           [] OTHER -> "error"
    ELSE CASE r.status = "OK" -> "ok"
           [] r.status = "ISSUE" /\ r.issue_type = "MISSING" -> "missing"
           [] r.status = "ISSUE" /\ r.issue_type = "INCORRECT" -> "incorrect"
           [] OTHER -> "error"

\* The four reasons for which a lookup is to report 'absent'.
LkShouldMiss ==
    \/ ~lk.enabled
    \/ ~lk.last.entry.present
    \/ ~lk.last.stat.exists
    \/ lk.last.entry.mtime # lk.last.stat.mtime

\* C2: for both cache managers, a lookup returns 'absent' if and only if
\* caching is disabled, or no entry exists for the key, or the stat of the
\* file fails, or the file's mtime differs from the stored one; in every
\* other case it returns the stored verdict.
C2_LookupAbsentIffMiss ==
    lk.last.op = "lookup" =>
        /\ (lk.last.out.kind = "none") <=> LkShouldMiss
        /\ ~LkShouldMiss =>
              /\ lk.last.out.kind = "result"
              /\ VerdictString(lk.kind, lk.last.out) = lk.last.entry.status
              /\ lk.last.out.error = lk.last.entry.error

PkNamed(f) == \E i \in DOMAIN pk.output : NamesFile(pk.output[i], f)

PkNamesOnly(X) == PkNamed(X) /\ \A Z \in PkFileSet \ {X} : ~PkNamed(Z)

RnUntouched == RnFiles \ (rn.modPrev \cup rn.modNow)

\* C1: with caching enabled in two consecutive check runs, the first having
\* completed and flushed, the second run makes no per-file tool invocation
\* (for license headers, no header check) for a file whose mtime did not
\* change: its invocation count in the second run is 0.
C1_SecondRunFromCache ==
    (/\ rn.run >= 2
     /\ rn.mode = "check"
     /\ rn.enabled
     /\ rn.prev.enabled
     /\ rn.prev.flushed) =>
        \A f \in RnUntouched : rn.inv[f] = 0

\* C3: every cache entry carries the mtime of the version of the file its
\* verdict was computed on, whatever another process does to the file between
\* the tool invocation and the store, and no lookup serves a verdict computed
\* on another version of the file than the current one.
C3_EntryMtimeOfExaminedVersion ==
    /\ \A f \in RnFiles, k \in LkKeys(rn.kind) :
          rn.cache[f][k].present => rn.cache[f][k].mtime = rn.seen[f][k]
    /\ \A f \in RnFiles : ~rn.w[f].served_stale

\* The pass of the run is over (the command is at its summary or has exited
\* after it).
RnPassOver == rn.pc = "summary" \/ (rn.pc = "exited" /\ rn.how # "toolmissing")

\* The sum of the outcome counters of the mode.
RnOutcomes ==
    IF rn.mode = "check"
    THEN rn.stats.ok + rn.stats.warnings + rn.stats.issues + rn.stats.errors
    ELSE rn.stats.fixed + rn.stats.skipped + rn.stats.errors

\* The statistics of the same pass made by a pool of one thread: the files
\* one after the other, in the order of the list, from the state the run
\* started in.
RnStartCtx(f) ==
    [kind |-> rn.kind, mode |-> rn.mode, enabled |-> rn.enabled, w |-> NewWorker,
     file |-> rn.start.files[f], entries |-> rn.start.cache[f],
     seen |-> rn.start.seen[f], inv |-> 0, fixinv |-> 0, writes |-> 0]

RECURSIVE RnSequentialStats(_)
RnSequentialStats(i) ==
    IF i = 0 THEN NoStats
    ELSE collect(rn.kind, rn.mode, RnSequentialStats(i - 1),
                 run_alone(RnStartCtx(RnFileList[i])).w.out)

MaxSeverity(verdicts) ==
    IF \E i \in DOMAIN verdicts : verdicts[i].status = "ERROR" THEN "ERROR"
    ELSE IF \E i \in DOMAIN verdicts : verdicts[i].status = "ISSUE" THEN "ISSUE"
    ELSE IF \E i \in DOMAIN verdicts : verdicts[i].status = "WARNING" THEN "WARNING"
    ELSE "OK"

\* The verdict the checks of the command give to the content a file has now.
RnFileVerdict(f) ==
    IF rn.kind = "lint"
    THEN MaxSeverity([i \in DOMAIN lint_steps |->
                        check_file_lint(subprocess_run_check(lint_steps[i].tool_name,
                                                             rn.files[f].content))])
    ELSE has_correct_license_header(rn.files[f]).status

\* C6: a check-mode run that chooses its exit code after the summary (no
\* other process rewriting a file meanwhile) exits with code 1 if and only if
\* the verdict of at least one file is ISSUE or ERROR, and with code 0
\* otherwise.
C6_CheckExitCode ==
    (/\ rn.pc = "exited"
     /\ rn.how = "decided"
     /\ rn.mode = "check"
     /\ rn.modPrev \cup rn.modNow = {}) =>
        ((rn.code = 1) <=> (\E f \in RnFiles : RnFileVerdict(f) \in {"ISSUE", "ERROR"}))

\* C7: a fix-mode run that has made its pass exits with code 0 if and only if
\* the errors counter is 0 at its end, and with code 1 otherwise.
C7_FixExitCode ==
    (rn.pc = "exited" /\ rn.how # "toolmissing" /\ rn.mode = "fix") =>
        ((rn.code = 0) <=> (rn.stats.errors = 0))

\* C8: when a fix run has fixed a file and has left every file fixed or found
\* it without issue, the fix run that follows it immediately over the same files (no other
\* process rewriting them) makes no fix invocation and no write, and reports
\* every file as SKIP: fixed = 0 and skipped = the number of files.
C8_FixIdempotent ==
    (/\ rn.run >= 2
     /\ rn.mode = "fix"
     /\ RnPassOver
     /\ rn.prev.passed
     /\ rn.modPrev \cup rn.modNow = {}
     /\ \E f \in RnFiles : rn.prev.outs[f].outcome = "fixed"
     /\ \A f \in RnFiles :
           /\ rn.prev.outs[f].kind = "return"
           /\ rn.prev.outs[f].outcome \in {"fixed", "skip"}
           /\ (IF rn.kind = "lint"
               THEN \A i \in DOMAIN lint_steps :
                       check_file_lint(subprocess_run_check(
                           lint_steps[i].tool_name, rn.start.files[f].content)).status = "OK"
               ELSE has_correct_license_header(rn.start.files[f]).status = "OK")) =>
        /\ \A f \in RnFiles :
              /\ rn.fixinv[f] = 0
              /\ rn.writes[f] = 0
              /\ rn.w[f].out.kind = "return"
              /\ rn.w[f].out.outcome = "skip"
        /\ rn.stats.fixed = 0
        /\ rn.stats.skipped = Len(RnFileList)

\* The messages of the verdicts that are not OK and carry one, each with the
\* name of its tool, in the order of the steps.
RECURSIVE TaggedMessages(_, _)
TaggedMessages(verdicts, i) ==
    IF i > Len(verdicts) THEN <<>>
    ELSE (IF verdicts[i].status # "OK" /\ Truthy(verdicts[i].error)
          THEN <<Msg(lint_steps[i].tool_name, verdicts[i].error)>>
          ELSE <<>>) \o TaggedMessages(verdicts, i + 1)

\* C9: in a lint check pass, when the unit of work of a file has ended, it
\* has a verdict of every configured step, it returned the most severe of
\* them (ERROR > ISSUE > WARNING > OK) as the file's verdict, and the
\* diagnostic holds the message of every step whose verdict is not OK, with
\* the name of its tool, in step order.
C9_AggregateVerdict ==
    (rn.kind = "lint" /\ rn.mode = "check") =>
        \A f \in RnFiles :
            rn.w[f].pc \in {"done", "raised"} =>
                /\ rn.w[f].out.kind = "return"
                /\ Len(rn.w[f].verdicts) = Len(lint_steps)
                /\ rn.w[f].out.status = MaxSeverity(rn.w[f].verdicts)
                /\ rn.w[f].out.msgs = TaggedMessages(rn.w[f].verdicts, 1)

\* C11: check_file_lint classifies every (launch outcome, exit code, output):
\* a launch failure gives ERROR with the exception text; exit 0 gives WARNING
\* with a warning marker and OK without; a non-zero exit gives ERROR with an
\* error, traceback or assertion marker, else WARNING with a warning marker,
\* else ISSUE.
C11_Classification ==
    pk.perfile.kind = "result" =>
        LET warning == HasMarker(pk.output, "warning:") \/ HasMarker(pk.output, "note:")
            error == \/ HasMarker(pk.output, "error:")
                     \/ HasMarker(pk.output, "traceback")
                     \/ HasMarker(pk.output, "assertion")
            expected ==
                IF ~pk.launched THEN "ERROR"
                ELSE IF pk.returncode = 0
                THEN IF warning THEN "WARNING" ELSE "OK"
                ELSE IF error THEN "ERROR"
                ELSE IF warning THEN "WARNING" ELSE "ISSUE"
        IN /\ pk.perfile.status = expected
           /\ ~pk.launched => pk.perfile.error = "str(e)"

\* C12: a store (update_cache) leaves the cache map alone when caching is
\* disabled or the stat of the file fails; otherwise it does not raise, the
\* entry under the key becomes the file's current mtime with the given
\* verdict, and every other entry of the map is unchanged.
C12_StoreFrame ==
    lk.last.op = "store" =>
        IF ~lk.enabled \/ ~lk.last.stat.exists
        THEN lk.last.upd.op = "noop" /\ lk.cache = lk.last.cache
        ELSE /\ lk.last.upd.op = "store"
             /\ lk.cache[lk.last.key].present
             /\ lk.cache[lk.last.key].mtime = lk.last.stat.mtime
             /\ lk.cache[lk.last.key].status = VerdictString(lk.kind, lk.last.arg)
             /\ lk.cache[lk.last.key].error = lk.last.arg.error
             /\ lk.kind = "license" => lk.cache[lk.last.key].year = lk.last.arg.year
             /\ \A k \in LkKeys(lk.kind) \ {lk.last.key} :
                    lk.cache[k] = lk.last.cache[k]

\* C13: load_cache never raises, whatever the cache file holds; it adopts the
\* file's contents exactly when they parse as a mapping with version "1.0" and
\* a mapping-valued cache field, and otherwise the in-memory store is empty.
C13_LoadNeverRaises ==
    (lk.enabled /\ lk.last.op = "init") =>
        /\ lk.load.raised = None
        /\ lk.load.adopted <=> /\ lk.file.how = "mapping"
                               /\ lk.file.version = "1.0"
                               /\ lk.file.cache = "mapping"
        /\ lk.cache = IF lk.load.adopted THEN lk.file.entries
                      ELSE [k \in LkKeys(lk.kind) |-> NoEntry]

\* C14: a failure at any step of save_cache (mkdir of the parent, open or
\* write of the temporary file, the rename, the unlink) is swallowed: no
\* exception leaves save_cache, and after a failure the temporary file is gone.
C14_FlushFailureSwallowed ==
    (fl.enabled /\ fl.pc \in {"returned", "raised"}) =>
        /\ fl.how \in {"returned", "swallowed"}
        /\ fl.how = "swallowed" => ~fl.dir[temp_path].exists

\* C15: a corrupt cache file is never surfaced as a failure: a lookup whose
\* entry is malformed (no mtime, not a mapping, unrecognised status) raises
\* nothing and behaves as a miss.
C15_CorruptEntryIsMiss ==
    (/\ lk.last.op = "lookup"
     /\ lk.last.entry.present
     /\ \/ lk.last.entry.shape # "mapping"
        \/ lk.last.entry.status \notin LoadedStatuses(lk.kind))
        => lk.last.out = NoneResult

\* C16: in a run started with --no-cache no lookup is a hit, every tool step
\* of every file is invoked (in a fix run: every step the loop comes to), the
\* in-memory map stays as it was at the start, and no step of the run changes
\* the persisted cache file.
C16_NoCacheRun ==
    /\ [](~rn.enabled =>
            \A f \in RnFiles :
                /\ rn.w[f].cached_count = 0
                /\ rn.cache[f] = rn.start.cache[f]
                /\ rn.w[f].pc \in {"done", "raised"} =>
                      rn.inv[f] = IF rn.mode = "check" THEN Len(Steps(rn.kind))
                                  ELSE Len(rn.w[f].verdicts))
    /\ [][(~rn.enabled /\ rn'.run = rn.run) => rn'.disk = rn.disk]_vars

\* C17: the cache round-trips losslessly: a lookup that follows the store of
\* a verdict on a file whose stat is unchanged returns that verdict (status,
\* issue type, year and text), and a save_cache followed by the load_cache
\* of a later run gives back every entry as it was.
C17_RoundTrip ==
    [][ /\ (/\ lk.last.op = "store"
            /\ lk'.last.op = "lookup"
            /\ lk'.last.key = lk.last.key
            /\ lk.enabled
            /\ lk.stat.exists) => lk'.last.out = lk.last.arg
        /\ lk'.last.op = "reload" => (lk'.load.adopted /\ lk'.cache = lk.cache) ]_vars

\* Whether the tool can be run: it is on the execution path, and so is uv for
\* a tool that the command runs through uv.
TlInstalled(tool) ==
    /\ tool \in rn.path
    /\ (tool = "ruff" \/ (tool = "mypy" /\ rn.command = "lint")) => "uv" \in rn.path

\* The required tools of the command that cannot be run.
TlMissing ==
    LET tools == required_tools(rn.command)
        required == UNION {{tools[i][j] : j \in DOMAIN tools[i]} : i \in DOMAIN tools}
    IN {t \in required : ~TlInstalled(t)}

\* C18: when a required tool is missing, the lint and format commands report
\* it and exit non-zero before any file is collected or processed: no tool is
\* invoked on a file, no statistics are recorded, the cache file is not
\* written.
C18_ToolMissingExitsFirst ==
    TlMissing # {} =>
        /\ rn.collected = {}
        /\ rn.invoked = {}
        /\ rn.recorded = 0
        /\ ~rn.written
        /\ rn.pc \in {"tools", "exited"}
        /\ rn.pc = "exited" => (rn.code = 1 /\ rn.reported \in TlMissing)

\* C18 witness: the tools of the first configuration are there and it has
\* files, a tool of the second configuration is missing; the command exited.
C18_Witness ==
    /\ rn.pc = "exited"
    /\ 1 \in rn.files
    /\ rn.config = 2
    /\ rn.reported \in TlMissing
    /\ rn.code = 1

\* C19: in a run with caching enabled that gets past the tool check,
\* save_cache is called exactly once, after every file has been processed and
\* counted and before the exit code is decided, whatever the verdicts of the
\* files were and whether or not workers raised; the file it writes holds the
\* cache store.
C19_FlushOnceAtEnd ==
    rn.enabled =>
        /\ rn.saves \in {0, 1}
        /\ rn.saves = 1 => \A f \in RnFiles : rn.w[f].collected
        /\ rn.how = "decided" => rn.saves = 1
        /\ (rn.pc = "exited" /\ rn.how # "toolmissing") => rn.saves = 1
        /\ rn.flushed => (rn.saves = 1 /\ rn.disk = [exists |-> TRUE, data |-> rn.cache])

\* C19 witness: a lint check, in which the workers raised, came to its exit
\* code after the one flush.
C19_Witness ==
    /\ rn.enabled
    /\ rn.pc = "exited"
    /\ rn.how = "decided"
    /\ rn.saves = 1
    /\ rn.flushed
    /\ \E f \in RnFiles : rn.w[f].out.kind = "raise"

\* C20: the sequence that collect_files returns is strictly increasing in the
\* order of the paths (sorted over the whole result, no path twice), and it
\* holds exactly the existing files that match: those under an existing
\* search directory with one of the extensions, and the existing explicit
\* files.
C20_CollectSortedDistinct ==
    fl.pc = "collected" =>
        /\ \A i \in 1..(Len(fl.files) - 1) : PathLess(fl.files[i], fl.files[i + 1])
        /\ \A i \in DOMAIN fl.files : fl.files[i] \in fl.fs

\* C21: in a lint pass of either mode, when a worker looks up the
\* package-level result of its file, the package-level step has been run for
\* the pass and has stored a result for that file: the worker never gets the
\* "Package-level linting not run" answer.
C21_PackageStepBeforeFanOut ==
    \A f \in PkFileSet :
        pk.checked[f].kind # "none" =>
            /\ pk.pc # "start"
            /\ pk.results[f].kind = "result"
            /\ pk.checked[f] = pk.results[f]

\* The verdict the tool of step i gives for the content the file had when
\* the run started.
RnToolVerdict(f, i) ==
    check_file_lint(subprocess_run_check(lint_steps[i].tool_name,
                                         rn.start.files[f].content))

\* C22: in a first lint fix run that no other process disturbs, for every
\* step of a fixable tool (the first step of the configuration, which sees
\* the file as the run found it) whose verdict for the file is ISSUE or
\* WARNING: once the file's unit of work has ended the fix invocation has
\* been made for the file, and when the fix succeeds and caching is enabled
\* the tool's cache entry of the file is OK with the mtime the file has after
\* the fix.
C22_FixableFindingIsFixed ==
    (rn.kind = "lint" /\ rn.mode = "fix" /\ rn.run = 1 /\ rn.modNow = {}) =>
        \A f \in RnFiles :
            (/\ rn.w[f].pc \in {"done", "raised"}
             /\ lint_steps[1].can_fix
             /\ RnToolVerdict(f, 1).status \in {"ISSUE", "WARNING"}) =>
                /\ rn.fixinv[f] >= 1
                /\ (/\ fix_file_lint(lint_steps[1], rn.start.files[f].content).fixed
                    /\ rn.enabled) =>
                       rn.cache[f][lint_steps[1].tool_name] =
                           CacheEntry(rn.files[f].mtime, "ok", None, 0)

\* Whether the file, as the run leaves it, still carries a finding: a lint
\* tool reports ISSUE on it, or its license header is missing or incorrect.
RnUnresolved(f) ==
    IF rn.kind = "lint"
    THEN \E i \in DOMAIN lint_steps :
            check_file_lint(subprocess_run_check(lint_steps[i].tool_name,
                                                 rn.files[f].content)).status = "ISSUE"
    ELSE has_correct_license_header(rn.files[f]).status = "ISSUE"

\* C23: a fix run (no other process rewriting the files) that leaves a file
\* with an unresolved finding does not end as a successful run: it does not
\* exit with code 0 with that file counted as skipped or fixed.
C23_PartialIsNotSuccess ==
    (/\ rn.pc = "exited"
     /\ rn.how = "decided"
     /\ rn.mode = "fix"
     /\ rn.modPrev \cup rn.modNow = {}) =>
        \A f \in RnFiles :
            RnUnresolved(f) =>
                ~(/\ rn.code = 0
                  /\ rn.w[f].out.kind = "return"
                  /\ rn.w[f].out.outcome \in {"skip", "fixed", "partial"})

\* C24: after a package-level run, for every file X the output names, every
\* other output with the same exit code whose lines naming X are the same
\* lines gives X the same verdict.
C24_VerdictOfOwnLines ==
    (pk.mode = "check" /\ pk.pc # "start" /\ pk.launched) =>
        \A X \in PkFileSet :
            PkNamed(X) =>
                \A other \in SeqsUpTo(SampleLines, MaxLines) :
                    FileLines(other, X) = FileLines(pk.output, X) =>
                        run_package_level_lint(PkFiles, TRUE, pk.returncode, other,
                                               NoPackageResults(PkFiles))[X]
                            = pk.results[X]

\* Thread t is at a use of what.
LcUsing(t, what) == LcAt(t).op = "use" /\ LcAt(t).arg = what

\* C25: in every parallel pass, a thread that changes a counter of the
\* statistics holds the lock of the statistics while it does.
C25_StatsUnderLock ==
    \A t \in DOMAIN lk.th : LcUsing(t, "stats") => lk.owner["stats"] = t

\* C26: in every parallel pass, a thread that writes a line to standard
\* output holds the output lock of the pass while it does, so no two threads
\* are writing at the same time.
C26_OutputUnderLock ==
    /\ \A t \in DOMAIN lk.th : LcUsing(t, "stdout") => lk.owner["output"] = t
    /\ \A t \in DOMAIN lk.th, u \in DOMAIN lk.th :
          (LcUsing(t, "stdout") /\ LcUsing(u, "stdout")) => t = u

\* The maps of a cache manager that its lock protects.
LcMaps == {"cache_map", "package_results", "year_cache"}

\* C27: a thread that reads or writes the cache map, the package-level
\* results or the year cache holds the cache manager's lock; a thread that
\* holds that lock is at such a lookup or insert, or is releasing the lock;
\* no thread holds it while its external tool runs.
C27_CacheLockForMapOnly ==
    \A t \in DOMAIN lk.th :
        /\ (LcAt(t).op = "use" /\ LcAt(t).arg \in LcMaps) => lk.owner["cache"] = t
        /\ lk.owner["cache"] = t =>
              \/ LcAt(t).op = "use" /\ LcAt(t).arg \in LcMaps
              \/ LcAt(t).op = "release" /\ LcAt(t).arg = "cache"
        /\ LcUsing(t, "subprocess") => lk.owner["cache"] # t

\* C27 witness: in a lint pass with caching enabled one worker holds the
\* cache lock for its lookup while the tool of the other worker is running.
C27_Witness ==
    /\ lk.kind = "lint"
    /\ lk.enabled
    /\ \E t \in DOMAIN lk.th, u \in DOMAIN lk.th :
          /\ t # u
          /\ LcUsing(t, "cache_map")
          /\ lk.owner["cache"] = t
          /\ LcUsing(u, "subprocess")

\* C28: when main takes a future whose unit of work raised, it counts the
\* file once in total and once in errors, changes no other counter and stays
\* in the loop over the futures; when the pass is over every future has been
\* taken, whatever raised.
C28_WorkerExceptionCounted ==
    /\ [](RnPassOver => \A f \in RnFiles : rn.w[f].collected)
    /\ [][\A f \in RnFiles :
             (/\ rn.pc = "pool"
              /\ rn.w[f].out.kind = "raise"
              /\ ~rn.w[f].collected
              /\ rn'.w[f].collected) =>
                 (/\ rn'.stats = [rn.stats EXCEPT !.total = @ + 1, !.errors = @ + 1]
                  /\ rn'.pc = "pool")]_vars

\* C28 witness: a lint pass run by two threads in which the units of work of
\* both files raised; after the first was counted main went on to the
\* second, and the pass is over with each counted once.
C28_Witness ==
    /\ rn.kind = "lint"
    /\ rn.pool = 2
    /\ rn.pc = "summary"
    /\ rn.w["x.cpp"].out.kind = "raise"
    /\ rn.w["y.cpp"].out.kind = "raise"
    /\ rn.w["x.cpp"].collected
    /\ rn.w["y.cpp"].collected
    /\ rn.stats.total = 2
    /\ rn.stats.errors = 2

\* C29: in a lint pass the unit of work of a file is at one step at a time
\* and takes the steps in the order of the configuration: the step number
\* only moves from k to k + 1, and only out of step k's classification, fix
\* or store after the fix, into step k + 1's lookup; while step k is looked
\* up, checked and stored the verdicts of the k - 1 steps before it, and no
\* other, have been taken; and in fix mode a later step finds the fix of an
\* earlier fixable step with an ISSUE verdict made, the file being as that
\* fix left it (no other process having rewritten it).
C29_StepsInOrder ==
    /\ [](rn.kind = "lint" =>
            \A f \in RnFiles :
                LET w == rn.w[f] IN
                Running(f) =>
                    /\ w.step \in DOMAIN lint_steps
                    /\ Len(w.verdicts) =
                           IF w.pc \in {"lookup", "invoke", "store", "classify"}
                           THEN w.step - 1 ELSE w.step
                    /\ rn.mode = "fix" =>
                          \A k \in 1..(w.step - 1) :
                              (lint_steps[k].can_fix /\ w.verdicts[k].status = "ISSUE") =>
                                  /\ rn.fixinv[f] >= 1
                                  /\ rn.modNow = {} =>
                                        rn.files[f].content =
                                            fix_file_lint(lint_steps[k],
                                                rn.start.files[f].content).content)
    /\ [][rn.kind = "lint" =>
             \A f \in RnFiles :
                 (rn'.run = rn.run /\ rn'.w[f].step # rn.w[f].step) =>
                     /\ rn'.w[f].step = rn.w[f].step + 1
                     /\ rn.w[f].pc \in {"classify", "fix", "fixstore"}
                     /\ rn'.w[f].pc = "lookup"]_vars

\* C29 witness: lint fix without cache; clang-tidy reported ISSUE on x.cpp,
\* its fix has run and rewritten the file, and the unit of work is now at the
\* check of clang-check, on the fixed file.
C29_Witness ==
    /\ rn.kind = "lint"
    /\ rn.mode = "fix"
    /\ rn.modNow = {}
    /\ rn.w["x.cpp"].step = 2
    /\ rn.w["x.cpp"].pc = "invoke"
    /\ rn.w["x.cpp"].verdicts[1].status = "ISSUE"
    /\ rn.fixinv["x.cpp"] = 1
    /\ rn.writes["x.cpp"] = 1
    /\ rn.files["x.cpp"].content # rn.start.files["x.cpp"].content

\* What a check run reports for a file: the verdict its unit of work returned
\* (with the issue type of a license header), or ERROR when it raised.
RnReported(out) ==
    IF out.kind = "raise" THEN <<"ERROR", None>> ELSE <<out.status, out.issue_type>>

\* What the unit of work of f gives in the same run made with --no-cache.
RnNoCacheOut(f) == run_alone([RnStartCtx(f) EXCEPT !.enabled = FALSE]).w.out

\* C30: a check run with caching enabled, in a sequence of check runs during
\* which no other process rewrites a file, reports for every file the verdict
\* that the same run made with --no-cache reports, and ends with the same
\* exit code.
C30_CacheTransparent ==
    (/\ rn.mode = "check"
     /\ rn.enabled
     /\ rn.pc = "exited"
     /\ rn.how # "toolmissing"
     /\ rn.modPrev \cup rn.modNow = {}) =>
        /\ \A f \in RnFiles : RnReported(rn.w[f].out) = RnReported(RnNoCacheOut(f))
        /\ rn.code =
              exit_code(rn.kind, "check",
                        collect(rn.kind, "check",
                                collect(rn.kind, "check", NoStats,
                                        RnNoCacheOut(RnFileList[1])),
                                RnNoCacheOut(RnFileList[2])))

C32_ResultForEveryFile ==
    pk.pc \in {"ran", "ranagain"} =>
        \A f \in PkFileSet :
            /\ get_package_result(pk.results, f).kind = "result"
            /\ ~pk.launched => get_package_result(pk.results, f).status = "ERROR"
            /\ pk.checked[f].kind = "result" =>
                   pk.checked[f].error # "Package-level linting not run"

\* The Statistics of the run in progress, of whichever command.
PsStats == IF pk.kind = "format" THEN pk.stats ELSE rn.stats
PsMode == IF pk.kind = "format" THEN pk.mode ELSE rn.mode

\* C33: in check mode of lint, format and the license-header check, after
\* any sequence of recorded results, the exception path of the pass
\* included, total = ok + warnings + issues + errors.
C33_CheckTotals ==
    PsMode = "check" =>
        PsStats.total =
            PsStats.ok + PsStats.warnings + PsStats.issues + PsStats.errors

\* C34: in fix mode of lint, format and the license-header command, after any
\* number of processed files, the package-level format fix and the exception
\* path of the parallel passes included, total = fixed + skipped + errors.
C34_FixTotals ==
    PsMode = "fix" =>
        PsStats.total = PsStats.fixed + PsStats.skipped + PsStats.errors

\* A format fix run that has ended after its four files: one counted as an
\* error, the others as fixed and skipped, a Python file fixed by the package
\* fix run among them.
C34_Witness ==
    /\ pk.kind = "format"
    /\ pk.mode = "fix"
    /\ pk.pc = "exited"
    /\ pk.stats.total = 4
    /\ pk.stats.errors = 1
    /\ pk.stats.fixed >= 1
    /\ pk.stats.skipped >= 1
    /\ pk.printed[3] = "[FIXED]"

\* C35: in every state of a license-header check run, issues = missing +
\* incorrect, and has_failures of the license statistics (missing > 0 or
\* incorrect > 0 or errors > 0) agrees with the base rule issues > 0 or
\* errors > 0; every ISSUE verdict of a unit of work, fresh or served from the
\* cache, carries the issue type MISSING or INCORRECT.
C35_IssuesAreMissingOrIncorrect ==
    (rn.kind = "license" /\ rn.mode = "check") =>
        /\ rn.stats.issues = rn.stats.missing + rn.stats.incorrect
        /\ has_failures("license", rn.stats) = has_failures("lint", rn.stats)
        /\ \A f \in RnFiles :
              (rn.w[f].out.kind = "return" /\ rn.w[f].out.status = "ISSUE") =>
                  rn.w[f].out.issue_type \in {"MISSING", "INCORRECT"}

\* A second license-header check run that has ended with one issue counted,
\* an INCORRECT header served from the cache.
C35_Witness ==
    /\ rn.kind = "license"
    /\ rn.mode = "check"
    /\ rn.run = 2
    /\ rn.pc = "exited"
    /\ rn.stats.issues = 1
    /\ rn.stats.incorrect = 1
    /\ \E f \in RnFiles :
         /\ rn.w[f].cached_count = 1
         /\ rn.w[f].out.status = "ISSUE"
         /\ rn.w[f].out.issue_type = "INCORRECT"

\* The pass has ended: the files were submitted, every worker has ended and
\* main has taken and counted every future.
LcPassOver ==
    /\ lk.phase = "pool"
    /\ lk.taken = DOMAIN lk.th \ {"main"}
    /\ \A t \in DOMAIN lk.th : LcAt(t).op = "end"

\* C36: no thread, worker or main, ever holds two of the three locks (cache,
\* output, statistics) at once; no state of a parallel pass is a deadlock
\* (while the pass has not ended some thread can take a step); and a pass
\* whose external tools all return always ends.
C36_NoNestedLocksNoDeadlock ==
    /\ [](\A t \in DOMAIN lk.th :
            Cardinality({l \in DOMAIN lk.owner : lk.owner[l] = t}) <= 1)
    /\ [](~LcPassOver => ENABLED LcNext)
    /\ <>LcPassOver

\* Two locks are held at once, by the main thread and by a worker.
C36_Witness ==
    \E t \in DOMAIN lk.th \ {"main"}, l1, l2 \in DOMAIN lk.owner :
        /\ l1 # l2
        /\ lk.owner[l1] = "main"
        /\ lk.owner[l2] = t

\* s is a subsequence of t: the elements of s, in their order, are in t.
RECURSIVE IsSubsequence(_, _)
IsSubsequence(s, t) ==
    IF s = <<>> THEN TRUE
    ELSE IF t = <<>> THEN FALSE
    ELSE IF Head(s) = Head(t) THEN IsSubsequence(Tail(s), Tail(t))
    ELSE IsSubsequence(s, Tail(t))

\* The text before fix_header starts with a shebang line.
HdShebang ==
    readlines(fl.before) # <<>> /\ readlines(fl.before)[1][1] = "#!sh"

\* C37: for every file content and every year, when fix_header has returned
\* True, a following has_correct_license_header that resolves the same year
\* returns OK, and a shebang line that was the first line of the file is
\* still its first line.
C37_FixThenCheckOk ==
    (fl.pc = "checked" /\ fl.fixed /\ fl.year = get_file_copyright_year) =>
        /\ fl.result.status = "OK"
        /\ HdShebang => readlines(fl.file.content)[1] = readlines(fl.before)[1]

\* C38: when fix_header has returned True, every line of the original file
\* is still a line of the file, in the original relative order; when it has
\* returned False, the file was not written.
C38_FixKeepsLines ==
    fl.pc \in {"fixed", "checked"} =>
        IF fl.fixed
        THEN IsSubsequence(readlines(fl.before), readlines(fl.file.content))
        ELSE fl.file.content = fl.before /\ fl.file.mtime = 1

\* C39: every status named by the lint runner, by the status maps of the lint
\* cache and by the statistics is a member of FileStatus (WARNING included):
\* classifying a tool run, caching a verdict and counting a verdict never
\* raise an AttributeError.
C39_WarningVerdictNeverFails ==
    /\ pk.perfile.kind = "result" => pk.perfile.error # "AttributeError"
    /\ \A f \in PkFileSet : pk.updated[f] # "raise"
    /\ \A f \in PkFileSet :
         pk.checked[f].kind = "result" =>
             ~record_result(NoStats, pk.checked[f].status).raised

=========================================================================
